---- MODULE Spec2Model ----
(***************************************************************************)
(* ESP32 OBD-II OLED dashboard: the producer task obdTask (core 0), the    *)
(* display loop (core 1) and the FreeRTOS mutex dataMutex between them.    *)
(*                                                                         *)
(* Units.  Times are milliseconds of millis().  Speeds are km/h, MAF       *)
(* values are hundredths of g/s (the reading times FUEL_CORRECTION).  The  *)
(* cumulative totals are kept as exact integers over a fixed denominator:  *)
(*   global_totalDistanceTraveled  in km / (2 * 3600000)                   *)
(*   global_totalFuelConsumed      in (g/s * h) / (100 * 2 * 3600000),     *)
(*                                 times 0.33094 for litres                *)
(* so that (curr + prev) / 2 * elapsed / 3600000 is (curr + prev)*elapsed. *)
(* Floating-point rounding is not modelled.  The tick counter does not     *)
(* wrap within the horizon of a run.                                       *)
(***************************************************************************)
EXTENDS Integers, Sequences, FiniteSets, TLC

\* ------------------------------------------------------------------ bounds
MaxTicks == 1
MaxDrops == 1
MaxBeginFails == 1

\* ------------------------------------------------------- program constants
FUEL_CORRECTION_PCT == 108
StatusLiveMs == 200
ReconnectDelayMs == 2000
tapTimeout == 1500
SetupDelayMs == 500
PhaseMs == 5000
SimPeriodMs == 50
HoldMs == 1000
DemoSetupDelayMs == 2000
MaxInstMpg == 99
MaxInstMpgV1 == 90
MpgPerKphOverMaf == 710734
MinAvgDistance == 720000
MinAvgFuel == 2175621

\* ------------------------------------------------- environment value sets
TickSteps == {5000}
KphValues == {0, 50}
MafRawValues == {0, 20}
RpmValues == {800}
LoadValues == {15}
FuelLevelValues == {60}

NoReading == -1

VARIABLES
  \* environment: millis(), the Bluetooth link
  clock, ticksUsed, connected, dropsUsed, tapsLeft, elmReady,
  beginFailsLeft,
  \* dataMutex and the globals it protects
  mutexHolder, store,
  \* obdTask: position, statics, locals of one pass
  obdPc, currentState, temp_kph, prev_kph, prev_maf, lastSpeedTime,
  lastFuelTime, lastSuccessfulMpgPollTime, now, dist_delta, time_delta_ms,
  temp_maf, fuel_delta, value, obd_local_mode, obdWake, dtcPasses,
  \* history of obdTask's polls and reconnection attempts
  kphFresh, mafFresh, kphPrev, mafPrev, secPrev, reconnectAt,
  \* simulationTask of the demo sketch: its helper variables
  sim,
  \* loop: position, statics, locals of one call
  loopPc, local_mode, tapCounter, lastTapTime, button, drag, snap, gauges,
  frame,
  \* history of the loop's critical sections
  snapshotAt, sectionsTaken, linkAtSnapshot, sharedChanged,
  \* the globals as they were when the mutex was last released
  committed

envVars == <<clock, ticksUsed, connected, dropsUsed, tapsLeft, elmReady,
             beginFailsLeft>>
obdStatics == <<currentState, temp_kph, prev_kph, prev_maf, lastSpeedTime,
                lastFuelTime, lastSuccessfulMpgPollTime, sim>>
obdLocals == <<now, dist_delta, time_delta_ms, temp_maf, fuel_delta, value,
               obd_local_mode, obdWake>>
obdHist == <<kphFresh, mafFresh, kphPrev, mafPrev, secPrev, reconnectAt>>
obdVars == <<obdPc, obdStatics, obdLocals, obdHist, dtcPasses>>
loopStatics == <<local_mode, tapCounter, lastTapTime, button, drag>>
loopHist == <<snapshotAt, sectionsTaken, linkAtSnapshot, sharedChanged>>
loopVars == <<loopPc, loopStatics, snap, gauges, frame, loopHist>>
vars == <<envVars, mutexHolder, store, obdVars, loopVars, committed>>

\* -------------------------------------------------------------- the store
\* The globals declared volatile at the top of the sketch.
InitStore ==
  [global_vss_kph |-> NoReading, global_maf |-> NoReading,
   global_rpm |-> NoReading, global_load |-> NoReading,
   global_fuel |-> NoReading,
   global_totalDistanceTraveled |-> 0,
   global_totalDistanceTraveledTimer |-> 0,
   global_totalFuelConsumed |-> 0,
   global_lastDataUpdate |-> 0,
   global_mode |-> 1]

\* The locals of loop() that receive the first critical section's copies.
InitSnap ==
  [local_kph |-> NoReading, local_maf |-> NoReading,
   local_totalDistanceTraveled |-> 0,
   local_totalDistanceTraveledTimer |-> 0,
   local_totalFuel |-> 0, local_lastUpdate |-> 0]

\* The locals of case 4 of loop(), as initialised there.
InitGauges ==
  [local_rpm |-> 0, local_fuelGauge |-> 0, local_engineLoad |-> 0]

\* The simulation helper variables of the demo sketch and lastSimTime and
\* phaseTimer of simulationTask.  sim_speed is in tenths of km/h.
InitSim ==
  [sim_speed |-> 0, sim_rpm |-> 800, sim_phase |-> 0, lastSimTime |-> 0,
   phaseTimer |-> 0]

\* The hold-to-switch statics of the demo sketch's loop().
InitButton == [buttonActive |-> FALSE, local_lastPressed |-> 0]

\* The statics of case 5 of loop(): the drag timer.  Times are milliseconds
\* (the sketch keeps the latched times in seconds).
InitDrag ==
  [startTime |-> 0, isRunning |-> FALSE, timer_30 |-> 0, timer_60 |-> 0,
   timer_80 |-> 0]

\* No efficiency figure on the screen.
NoInst == [text |-> "", n |-> 0]

\* Nothing pushed to the display.  A frame records the screen drawn, the
\* numbers of the gauges screen, the instantaneous efficiency (the text
\* kind "num", "00" or "--" and the number), the average efficiency (the
\* text kind "num", "inf" or "--"), the status sign, and for the status
\* sign the link state it read, the age of the data at the draw, and the
\* age of the data, the link state and the copied timestamp when the copies
\* were taken.
NoFrame ==
  [mode |-> 0, values |-> <<>>, inst |-> NoInst, avg |-> "", status |-> "",
   link |-> TRUE, age |-> 0, snapAge |-> 0, snapLink |-> TRUE,
   lastUpdate |-> 0, timers |-> <<>>]

\* ------------------------------------------------------------- dataMutex
CanTake_Always(holder) == TRUE

\* xSemaphoreTake succeeds only when nobody holds the mutex.
CanTake(holder) == holder = "none"

\* -------------------------------------------------------------- Integrator
\* Elapsed milliseconds added to the moving time (0 on the first sample).
SpeedTimeDelta(nowMs, lastMs) ==
  IF lastMs > 0 THEN nowMs - lastMs ELSE 0

DistDelta_Difference(curr, prev, nowMs, lastMs) ==
  IF lastMs > 0 /\ (curr > 0 \/ prev > 0)
    THEN (curr - prev) * (nowMs - lastMs)
    ELSE 0

\* Trapezoidal distance delta, over the denominator 2 * 3600000.
DistDelta(curr, prev, nowMs, lastMs) ==
  IF lastMs > 0 /\ (curr > 0 \/ prev > 0)
    THEN (curr + prev) * (nowMs - lastMs)
    ELSE 0

\* Trapezoidal MAF delta, over the denominator 100 * 2 * 3600000.
FuelDelta(curr, prev, nowMs, lastMs) ==
  IF lastMs > 0 /\ (curr > 0 \/ prev > 0)
    THEN (curr + prev) * (nowMs - lastMs)
    ELSE 0

LastSampleTime_ResetOnFail(outcome, lastMs, nowMs) ==
  IF outcome = "success" THEN nowMs
  ELSE IF outcome = "fail" THEN 0 ELSE lastMs

\* lastSpeedTime / lastFuelTime after a query: now inside the ELM_SUCCESS
\* branch, left alone by the printError branch and by a pending query.
LastSampleTime(outcome, lastMs, nowMs) ==
  IF outcome = "success" THEN nowMs ELSE lastMs

CorrectedMaf_Uncorrected(raw) == raw * 100

\* mafRate() * FUEL_CORRECTION, in hundredths of g/s.
CorrectedMaf(raw) == raw * FUEL_CORRECTION_PCT

ObdStates == {"KPH", "MAF", "RPM", "LOAD", "FUEL", "DTC"}
Outcomes == {"success", "pending", "fail"}

\* The locals of one pass of the for(;;) body, as they are before the pass.
ObdLocalsReset ==
  /\ now' = 0 /\ dist_delta' = 0 /\ time_delta_ms' = 0 /\ temp_maf' = 0
  /\ fuel_delta' = 0 /\ value' = 0 /\ obd_local_mode' = 1

\* ------------------------------------------------------------ environment
\* Time passes.
Tick ==
  /\ ticksUsed < MaxTicks
  /\ \E d \in TickSteps : clock' = clock + d
  /\ ticksUsed' = ticksUsed + 1
  /\ UNCHANGED <<connected, dropsUsed, tapsLeft, elmReady, beginFailsLeft,
                 mutexHolder, store, obdVars, loopVars, committed>>

\* The Bluetooth link is lost.
LinkDrop ==
  /\ connected
  /\ dropsUsed < MaxDrops
  /\ connected' = FALSE
  /\ dropsUsed' = dropsUsed + 1
  /\ UNCHANGED <<clock, ticksUsed, tapsLeft, elmReady, beginFailsLeft,
                 mutexHolder, store, obdVars, loopVars, committed>>

\* ---------------------------------------------------- obdTask: sections
\* xSemaphoreTake(dataMutex, portMAX_DELAY) at position from.
ObdTake(from, to) ==
  /\ obdPc = from
  /\ CanTake(mutexHolder)
  /\ mutexHolder' = "obd"
  /\ obdPc' = to
  /\ UNCHANGED <<envVars, store, obdStatics, obdLocals, obdHist, dtcPasses,
                 loopVars, committed>>

\* One assignment to a global inside a section of obdTask.
ObdWrite(from, to, field, val) ==
  /\ obdPc = from
  /\ store' = [store EXCEPT ![field] = val]
  /\ obdPc' = to
  /\ UNCHANGED <<envVars, mutexHolder, obdStatics, obdLocals, obdHist,
                 dtcPasses, loopVars, committed>>

ObdGive_KeepsMutex(from, nextState) ==
  /\ obdPc = from
  /\ mutexHolder' = "obd"
  /\ committed' = store
  /\ currentState' = nextState
  /\ obdPc' = "top"
  /\ ObdLocalsReset
  /\ UNCHANGED <<envVars, store, temp_kph, prev_kph, prev_maf, lastSpeedTime,
                 lastFuelTime, lastSuccessfulMpgPollTime, sim, obdWake,
                 obdHist, dtcPasses, loopVars>>

\* xSemaphoreGive, the choice of the next state, and the end of the pass
\* (vTaskDelay of one tick).
ObdGive(from, nextState) ==
  /\ obdPc = from
  /\ mutexHolder' = "none"
  /\ committed' = store
  /\ currentState' = nextState
  /\ obdPc' = "top"
  /\ ObdLocalsReset
  /\ UNCHANGED <<envVars, store, temp_kph, prev_kph, prev_maf, lastSpeedTime,
                 lastFuelTime, lastSuccessfulMpgPollTime, sim, obdWake,
                 obdHist, dtcPasses, loopVars>>

\* local_mode = global_mode inside a section of obdTask.
ObdReadMode(from, to) ==
  /\ obdPc = from
  /\ obd_local_mode' = store.global_mode
  /\ obdPc' = to
  /\ UNCHANGED <<envVars, mutexHolder, store, obdStatics, now, dist_delta,
                 time_delta_ms, temp_maf, fuel_delta, value, obdWake,
                 obdHist, dtcPasses, loopVars, committed>>

ObdPollKph_FailureSkips ==
  /\ obdPc = "top" /\ connected /\ currentState = "KPH"
  /\ \E outcome \in Outcomes, v \in KphValues :
       /\ IF outcome = "success"
            THEN /\ temp_kph' = v
                 /\ now' = clock
                 /\ time_delta_ms' = SpeedTimeDelta(clock, lastSpeedTime)
                 /\ dist_delta' = DistDelta(v, prev_kph, clock, lastSpeedTime)
                 /\ prev_kph' = v
                 /\ obdPc' = "kph_take"
                 /\ kphPrev' = "success"
                 /\ kphFresh' = FALSE
                 /\ UNCHANGED currentState
            ELSE /\ kphPrev' = IF outcome = "fail" THEN "fail" ELSE kphPrev
                 /\ currentState' = IF outcome = "fail" THEN "MAF" ELSE "KPH"
                 /\ UNCHANGED <<temp_kph, now, time_delta_ms, dist_delta,
                                prev_kph, obdPc, kphFresh>>
       /\ lastSpeedTime' = LastSampleTime(outcome, lastSpeedTime, clock)
  /\ UNCHANGED <<envVars, mutexHolder, store, prev_maf,
                 lastFuelTime, lastSuccessfulMpgPollTime, sim, temp_maf,
                 fuel_delta, value, obd_local_mode, obdWake, mafFresh,
                 mafPrev, secPrev, reconnectAt, dtcPasses, loopVars, committed>>

\* ------------------------------------------------------- obdTask: speed
\* case OBD_STATE_KPH: the query and, on success, the delta against the
\* previous sample and the update of the previous-sample cache.
ObdPollKph ==
  /\ obdPc = "top" /\ connected /\ currentState = "KPH"
  /\ \E outcome \in Outcomes, v \in KphValues :
       /\ IF outcome = "success"
            THEN /\ temp_kph' = v
                 /\ now' = clock
                 /\ time_delta_ms' = SpeedTimeDelta(clock, lastSpeedTime)
                 /\ dist_delta' = DistDelta(v, prev_kph, clock, lastSpeedTime)
                 /\ prev_kph' = v
                 /\ obdPc' = "kph_take"
                 /\ kphPrev' = "success"
                 /\ kphFresh' = FALSE
            ELSE /\ kphPrev' = IF outcome = "fail" THEN "fail" ELSE kphPrev
                 /\ UNCHANGED <<temp_kph, now, time_delta_ms, dist_delta,
                                prev_kph, obdPc, kphFresh>>
       /\ lastSpeedTime' = LastSampleTime(outcome, lastSpeedTime, clock)
  /\ UNCHANGED <<envVars, mutexHolder, store, currentState, prev_maf,
                 lastFuelTime, lastSuccessfulMpgPollTime, sim, temp_maf,
                 fuel_delta, value, obd_local_mode, obdWake, mafFresh,
                 mafPrev, secPrev, reconnectAt, dtcPasses, loopVars, committed>>

ObdKphTake == ObdTake("kph_take", "kph_vss")

ObdKphSetVss == ObdWrite("kph_vss", "kph_dist", "global_vss_kph", temp_kph)

ObdKphAddDist ==
  ObdWrite("kph_dist", "kph_timer", "global_totalDistanceTraveled",
           store.global_totalDistanceTraveled + dist_delta)

ObdKphAddTimer_Always ==
  ObdWrite("kph_timer", "kph_upd", "global_totalDistanceTraveledTimer",
           store.global_totalDistanceTraveledTimer + time_delta_ms)

ObdKphAddTimer ==
  ObdWrite("kph_timer", "kph_upd", "global_totalDistanceTraveledTimer",
           IF temp_kph > 0
             THEN store.global_totalDistanceTraveledTimer + time_delta_ms
             ELSE store.global_totalDistanceTraveledTimer)

ObdKphSetUpdate == ObdWrite("kph_upd", "kph_mode", "global_lastDataUpdate", now)

ObdKphReadMode == ObdReadMode("kph_mode", "kph_give")

ObdKphGive_ToRpm ==
  ObdGive("kph_give",
          IF obd_local_mode = 5 THEN "KPH"
          ELSE IF obd_local_mode = 4 THEN "RPM" ELSE "MAF")

ObdKphGive_AlwaysMaf == ObdGive("kph_give", "MAF")

ObdKphGive ==
  ObdGive("kph_give", IF obd_local_mode = 5 THEN "KPH" ELSE "MAF")

ObdPollMaf_FailureRetries ==
  /\ obdPc = "top" /\ connected /\ currentState = "MAF"
  /\ \E outcome \in Outcomes, raw \in MafRawValues :
       /\ CASE outcome = "success" ->
                 /\ temp_maf' = CorrectedMaf(raw)
                 /\ now' = clock
                 /\ fuel_delta' = FuelDelta(CorrectedMaf(raw), prev_maf,
                                            clock, lastFuelTime)
                 /\ prev_maf' = CorrectedMaf(raw)
                 /\ obdPc' = "maf_take"
                 /\ mafPrev' = "success"
                 /\ mafFresh' = FALSE
                 /\ UNCHANGED currentState
            [] outcome = "fail" ->
                 /\ mafPrev' = "fail"
                 /\ UNCHANGED <<temp_maf, now, fuel_delta, prev_maf, obdPc,
                                mafFresh, currentState>>
            [] outcome = "pending" ->
                 UNCHANGED <<temp_maf, now, fuel_delta, prev_maf, obdPc,
                             mafFresh, mafPrev, currentState>>
       /\ lastFuelTime' = LastSampleTime(outcome, lastFuelTime, clock)
  /\ UNCHANGED <<envVars, mutexHolder, store, temp_kph, prev_kph,
                 lastSpeedTime, lastSuccessfulMpgPollTime, sim, dist_delta,
                 time_delta_ms, value, obd_local_mode, obdWake, kphFresh,
                 kphPrev, secPrev, reconnectAt, dtcPasses, loopVars, committed>>

\* --------------------------------------------------------- obdTask: MAF
\* case OBD_STATE_MAF: the query and, on success, the fuel delta; a failure
\* goes back to the speed state.
ObdPollMaf ==
  /\ obdPc = "top" /\ connected /\ currentState = "MAF"
  /\ \E outcome \in Outcomes, raw \in MafRawValues :
       /\ CASE outcome = "success" ->
                 /\ temp_maf' = CorrectedMaf(raw)
                 /\ now' = clock
                 /\ fuel_delta' = FuelDelta(CorrectedMaf(raw), prev_maf,
                                            clock, lastFuelTime)
                 /\ prev_maf' = CorrectedMaf(raw)
                 /\ obdPc' = "maf_take"
                 /\ mafPrev' = "success"
                 /\ mafFresh' = FALSE
                 /\ UNCHANGED currentState
            [] outcome = "fail" ->
                 /\ currentState' = "KPH"
                 /\ mafPrev' = "fail"
                 /\ UNCHANGED <<temp_maf, now, fuel_delta, prev_maf, obdPc,
                                mafFresh>>
            [] outcome = "pending" ->
                 UNCHANGED <<temp_maf, now, fuel_delta, prev_maf, obdPc,
                             mafFresh, mafPrev, currentState>>
       /\ lastFuelTime' = LastSampleTime(outcome, lastFuelTime, clock)
  /\ UNCHANGED <<envVars, mutexHolder, store, temp_kph, prev_kph,
                 lastSpeedTime, lastSuccessfulMpgPollTime, sim, dist_delta,
                 time_delta_ms, value, obd_local_mode, obdWake, kphFresh,
                 kphPrev, secPrev, reconnectAt, dtcPasses, loopVars, committed>>

ObdMafTake == ObdTake("maf_take", "maf_val")

ObdMafSetMaf == ObdWrite("maf_val", "maf_fuel", "global_maf", temp_maf)

ObdMafAddFuel ==
  ObdWrite("maf_fuel", "maf_upd", "global_totalFuelConsumed",
           store.global_totalFuelConsumed + fuel_delta)

ObdMafSetUpdate == ObdWrite("maf_upd", "maf_mode", "global_lastDataUpdate", now)

ObdMafReadMode == ObdReadMode("maf_mode", "maf_give")

ObdMafGive_GaugesOnly ==
  ObdGive("maf_give", IF obd_local_mode = 4 THEN "RPM" ELSE "KPH")

ObdMafGive ==
  ObdGive("maf_give",
          IF obd_local_mode = 4 THEN "RPM"
          ELSE IF obd_local_mode = 6 THEN "DTC" ELSE "KPH")

\* ------------------------------------- obdTask: rpm, engine load, fuel level
\* A secondary query: a resolved query moves on, a pending one stays.
ObdPollSecondary(state, values, takePc, failState) ==
  /\ obdPc = "top" /\ connected /\ currentState = state
  /\ \E outcome \in Outcomes, v \in values :
       CASE outcome = "success" ->
              /\ value' = v
              /\ obdPc' = takePc
              /\ secPrev' = "success"
              /\ UNCHANGED currentState
         [] outcome = "fail" ->
              /\ currentState' = failState
              /\ secPrev' = "fail"
              /\ UNCHANGED <<value, obdPc>>
         [] outcome = "pending" ->
              UNCHANGED <<value, obdPc, currentState, secPrev>>
  /\ UNCHANGED <<envVars, mutexHolder, store, temp_kph, prev_kph, prev_maf,
                 lastSpeedTime, lastFuelTime, lastSuccessfulMpgPollTime, sim,
                 now, dist_delta, time_delta_ms, temp_maf, fuel_delta,
                 obd_local_mode, obdWake, kphFresh, mafFresh, kphPrev,
                 mafPrev, reconnectAt, dtcPasses, loopVars, committed>>

ObdPollRpm == ObdPollSecondary("RPM", RpmValues, "rpm_take", "LOAD")

ObdRpmTake == ObdTake("rpm_take", "rpm_val")

ObdRpmSetRpm == ObdWrite("rpm_val", "rpm_upd", "global_rpm", value)

ObdRpmSetUpdate_Skipped ==
  ObdWrite("rpm_upd", "rpm_give", "global_lastDataUpdate",
           store.global_lastDataUpdate)

ObdRpmSetUpdate == ObdWrite("rpm_upd", "rpm_give", "global_lastDataUpdate", clock)

ObdRpmGive == ObdGive("rpm_give", "LOAD")

ObdPollLoad == ObdPollSecondary("LOAD", LoadValues, "load_take", "FUEL")

ObdLoadTake == ObdTake("load_take", "load_val")

ObdLoadSetLoad == ObdWrite("load_val", "load_upd", "global_load", value)

ObdLoadSetUpdate ==
  ObdWrite("load_upd", "load_give", "global_lastDataUpdate", clock)

ObdLoadGive == ObdGive("load_give", "FUEL")

ObdPollFuel == ObdPollSecondary("FUEL", FuelLevelValues, "fuel_take", "KPH")

ObdFuelTake == ObdTake("fuel_take", "fuel_val")

ObdFuelSetFuel == ObdWrite("fuel_val", "fuel_upd", "global_fuel", value)

ObdFuelSetUpdate ==
  ObdWrite("fuel_upd", "fuel_give", "global_lastDataUpdate", clock)

ObdFuelGive == ObdGive("fuel_give", "KPH")

\* case OBD_STATE_DTC: the case body is a bare break.
ObdDtc ==
  /\ obdPc = "top" /\ connected /\ currentState = "DTC"
  /\ dtcPasses' = TRUE
  /\ UNCHANGED <<envVars, mutexHolder, store, obdPc, obdStatics, obdLocals,
                 obdHist, loopVars, committed>>

ObdDownTake_NoInvalidate ==
  /\ ~connected
  /\ obdPc = "top"
  /\ obdPc' = "reconnect"
  /\ UNCHANGED <<envVars, mutexHolder, store, obdStatics, obdLocals, obdHist,
                 dtcPasses, loopVars, committed>>

\* ---------------------------------------------------- obdTask: link down
ObdDownTake == ~connected /\ ObdTake("top", "down_vss")

ObdDownSetVss_ResetTotals ==
  /\ obdPc = "down_vss"
  /\ store' = [store EXCEPT !.global_vss_kph = NoReading,
                            !.global_totalDistanceTraveled = 0,
                            !.global_totalFuelConsumed = 0,
                            !.global_totalDistanceTraveledTimer = 0]
  /\ obdPc' = "down_give"
  /\ UNCHANGED <<envVars, mutexHolder, obdStatics, obdLocals, obdHist,
                 dtcPasses, loopVars, committed>>

ObdDownSetVss == ObdWrite("down_vss", "down_give", "global_vss_kph", NoReading)

ObdDownGive ==
  /\ obdPc = "down_give"
  /\ mutexHolder' = "none"
  /\ committed' = store
  /\ obdPc' = "reconnect"
  /\ UNCHANGED <<envVars, store, obdStatics, obdLocals, obdHist, dtcPasses,
                 loopVars>>

\* ELM_PORT.connect(address), myELM327.begin when connected (its result is
\* not looked at), the reset of lastSuccessfulMpgPollTime and the start of
\* the 2000 ms delay.  elmReady is what the last begin() returned; the
\* adapter fails a begin() at most beginFailsLeft more times.
ObdReconnect ==
  /\ obdPc = "reconnect"
  /\ \E accepted \in BOOLEAN, began \in BOOLEAN :
       /\ ~began => (connected \/ accepted) /\ beginFailsLeft > 0
       /\ connected' = (connected \/ accepted)
       /\ elmReady' = IF connected \/ accepted THEN began ELSE elmReady
       /\ beginFailsLeft' = IF began THEN beginFailsLeft
                                      ELSE beginFailsLeft - 1
  /\ reconnectAt' = clock
  /\ lastSuccessfulMpgPollTime' = 0
  /\ obdWake' = clock + ReconnectDelayMs
  /\ obdPc' = "sleep"
  /\ kphFresh' = TRUE
  /\ mafFresh' = TRUE
  /\ UNCHANGED <<clock, ticksUsed, dropsUsed, tapsLeft, mutexHolder, store,
                 currentState, temp_kph, prev_kph, prev_maf, lastSpeedTime,
                 lastFuelTime, sim, now, dist_delta, time_delta_ms,
                 temp_maf, fuel_delta, value, obd_local_mode, kphPrev,
                 mafPrev, secPrev, dtcPasses, loopVars, committed>>

ObdWake_NoDelay ==
  /\ obdPc = "sleep"
  /\ obdWake' = 0
  /\ obdPc' = "top"
  /\ reconnectAt' = IF connected THEN 0 ELSE reconnectAt
  /\ UNCHANGED <<envVars, mutexHolder, store, obdStatics, now, dist_delta,
                 time_delta_ms, temp_maf, fuel_delta, value, obd_local_mode,
                 kphFresh, mafFresh, kphPrev, mafPrev, secPrev, dtcPasses, loopVars,
                 committed>>

\* The delay has elapsed; the pass ends.  reconnectAt keeps the time of the
\* last attempt while the link stays down.
ObdWake ==
  /\ obdPc = "sleep"
  /\ clock >= obdWake
  /\ obdWake' = 0
  /\ obdPc' = "top"
  /\ reconnectAt' = IF connected THEN 0 ELSE reconnectAt
  /\ UNCHANGED <<envVars, mutexHolder, store, obdStatics, now, dist_delta,
                 time_delta_ms, temp_maf, fuel_delta, value, obd_local_mode,
                 kphFresh, mafFresh, kphPrev, mafPrev, secPrev, dtcPasses, loopVars,
                 committed>>

\* The speed and MAF states.
ObdSpeedStep ==
  \/ ObdPollKph \/ ObdKphTake \/ ObdKphSetVss \/ ObdKphAddDist
  \/ ObdKphAddTimer \/ ObdKphSetUpdate \/ ObdKphReadMode \/ ObdKphGive

ObdMafStep ==
  \/ ObdPollMaf \/ ObdMafTake \/ ObdMafSetMaf \/ ObdMafAddFuel
  \/ ObdMafSetUpdate \/ ObdMafReadMode \/ ObdMafGive

ObdPrimaryStep == ObdSpeedStep \/ ObdMafStep

\* The rpm, engine-load and fuel-level states.
ObdSecondaryStep ==
  \/ ObdPollRpm \/ ObdRpmTake \/ ObdRpmSetRpm \/ ObdRpmSetUpdate \/ ObdRpmGive
  \/ ObdPollLoad \/ ObdLoadTake \/ ObdLoadSetLoad \/ ObdLoadSetUpdate
  \/ ObdLoadGive
  \/ ObdPollFuel \/ ObdFuelTake \/ ObdFuelSetFuel \/ ObdFuelSetUpdate
  \/ ObdFuelGive

\* The branch taken when the link is down.
ObdDownStep ==
  \/ ObdDownTake \/ ObdDownSetVss \/ ObdDownGive \/ ObdReconnect \/ ObdWake

\* ------------------------------------------------------------------ loop
TapFrame(n) == [NoFrame EXCEPT !.values = <<n>>, !.status = "TAP"]

StatusSign_NoLink(nowMs, lastUpdate, link) ==
  IF nowMs - lastUpdate < StatusLiveMs THEN "o" ELSE "!"

\* The status sign of the efficiency screen.
StatusSign(nowMs, lastUpdate, link) ==
  IF nowMs - lastUpdate < StatusLiveMs THEN "o"
  ELSE IF ~link THEN "x" ELSE "!"

\* round((14.7 * 6.17 * 4.54 * kph * 0.621371) / (3600 * maf / 100)) for a
\* MAF value in hundredths of g/s: the constants multiply to 710.734 per
\* km/h over hundredths of g/s, kept in thousandths.
InstMpg(kph, maf) ==
  (2 * MpgPerKphOverMaf * kph + 1000 * maf) \div (2 * 1000 * maf)

InstMpgCapped_Unclamped(kph, maf, cap) == InstMpg(kph, maf)

\* if (inst_mpg > cap) inst_mpg = cap
InstMpgCapped(kph, maf, cap) ==
  IF InstMpg(kph, maf) > cap THEN cap ELSE InstMpg(kph, maf)

\* The large figure of the efficiency screen.
InstText(s) ==
  IF s.local_kph > 0 /\ s.local_maf > 0
    THEN [text |-> "num",
          n |-> InstMpgCapped(s.local_kph, s.local_maf, MaxInstMpg)]
    ELSE IF s.local_kph = 0 /\ s.local_maf > 0
           THEN [text |-> "00", n |-> 0]
           ELSE [text |-> "--", n |-> 0]

\* isAverageMpgValid: more than 0.1 km and more than 0.001 l.
AvgValid(s) ==
  /\ s.local_totalDistanceTraveled > MinAvgDistance
  /\ s.local_totalFuel > MinAvgFuel

\* The small figure of the efficiency screen.
AvgText(s) == IF AvgValid(s) THEN "num" ELSE "--"

\* "MPG Avg:" of the totals screen: 235.21 / lp100k is printed whenever the
\* distance is above 0.1 km; with no fuel counted lp100k is 0 and the
\* quotient is infinite.
TotalsAvgText(s) ==
  IF s.local_totalDistanceTraveled > MinAvgDistance
    THEN IF s.local_totalFuel = 0 THEN "inf" ELSE "num"
    ELSE "--"

\* current_mph = local_kph * 0.621371, in millionths of a mile per hour.
MicroMph(kph) == kph * 621371

DragReset_KeepsLatches(d, kph) ==
  IF kph = 0 THEN [d EXCEPT !.isRunning = FALSE] ELSE d

\* case 5, "Reset State": a snapshot speed of exactly 0 stops the run and
\* clears the latched times.
DragReset(d, kph) ==
  IF kph = 0
    THEN [d EXCEPT !.isRunning = FALSE, !.timer_30 = 0, !.timer_60 = 0,
                   !.timer_80 = 0]
    ELSE d

\* case 5, "Start Trigger".
DragStart(d, kph, nowMs) ==
  IF MicroMph(kph) > 500000 /\ ~d.isRunning /\ d.timer_80 = 0
    THEN [d EXCEPT !.startTime = nowMs, !.isRunning = TRUE]
    ELSE d

DragLatch_Relatches(d, kph, nowMs) ==
  IF ~d.isRunning THEN d
  ELSE LET currentDuration == nowMs - d.startTime
           hit30 == MicroMph(kph) >= 30000000
           hit60 == MicroMph(kph) >= 60000000
           hit80 == MicroMph(kph) >= 80000000 /\ d.timer_80 = 0
       IN  [d EXCEPT
              !.timer_30 = IF hit30 THEN currentDuration ELSE @,
              !.timer_60 = IF hit60 THEN currentDuration ELSE @,
              !.timer_80 = IF hit80 THEN currentDuration ELSE @,
              !.isRunning = ~hit80 /\ ~(currentDuration > 180000)]

\* case 5, "Running & Latching Logic": the three latches, the stop at
\* 80 mph and the stop after three minutes.
DragLatch(d, kph, nowMs) ==
  IF ~d.isRunning THEN d
  ELSE LET currentDuration == nowMs - d.startTime
           hit30 == MicroMph(kph) >= 30000000 /\ d.timer_30 = 0
           hit60 == MicroMph(kph) >= 60000000 /\ d.timer_60 = 0
           hit80 == MicroMph(kph) >= 80000000 /\ d.timer_80 = 0
       IN  [d EXCEPT
              !.timer_30 = IF hit30 THEN currentDuration ELSE @,
              !.timer_60 = IF hit60 THEN currentDuration ELSE @,
              !.timer_80 = IF hit80 THEN currentDuration ELSE @,
              !.isRunning = ~hit80 /\ ~(currentDuration > 180000)]

\* The statics of case 5 after one render of the drag screen.
DragRender(d, kph, nowMs) ==
  DragLatch(DragStart(DragReset(d, kph), kph, nowMs), kph, nowMs)

\* What case 5 draws: the three lines, " --.-" for a time that is not
\* latched, and READY! at speed 0.
DragFrame(d, kph) ==
  [NoFrame EXCEPT
     !.mode = 5,
     !.values = <<d.timer_30, d.timer_60, d.timer_80>>,
     !.status = IF kph = 0 THEN "READY!" ELSE ""]

\* String(n) of a non-negative number: its decimal digits, one character
\* each.
RECURSIVE Decimal(_)
Decimal(n) ==
  IF n < 10
    THEN <<<<"0", "1", "2", "3", "4", "5", "6", "7", "8", "9">>[n + 1]>>
    ELSE Decimal(n \div 10) \o Decimal(n % 10)

\* A field of timerTransform: a '0' in front of a value below 10.
TwoDigits(n) == IF n < 10 THEN <<"0">> \o Decimal(n) ELSE Decimal(n)

\* timerTransform: the seconds are kept in a uint16_t, the hours are
\* printed only from one hour on.
timerTransform(millisTime) ==
  LET seconds == (millisTime \div 1000) % 65536
      hours == seconds \div 3600
      minutes == (seconds % 3600) \div 60
  IN  (IF hours >= 1 THEN TwoDigits(hours) \o <<":">> ELSE <<>>)
        \o TwoDigits(minutes) \o <<":">>
        \o TwoDigits((seconds % 3600) % 60)

\* What the switch on local_mode draws from the copies, modes other than 4.
RenderedFrame(mode, s, nowMs, link, takenAt, linkThen) ==
  CASE mode = 1 ->
         [mode |-> 1, values |-> <<>>, inst |-> InstText(s),
          avg |-> AvgText(s),
          status |-> StatusSign(nowMs, s.local_lastUpdate, link),
          link |-> link, age |-> nowMs - s.local_lastUpdate,
          snapAge |-> takenAt - s.local_lastUpdate, snapLink |-> linkThen,
          lastUpdate |-> s.local_lastUpdate, timers |-> <<>>]
    [] mode = 2 ->
         [NoFrame EXCEPT
            !.mode = 2,
            !.timers = <<timerTransform(nowMs),
                         timerTransform(s.local_totalDistanceTraveledTimer)>>]
    [] mode = 3 ->
         [NoFrame EXCEPT !.mode = 3, !.avg = TotalsAvgText(s)]
    [] OTHER -> [NoFrame EXCEPT !.mode = mode]

\* What case 4 draws.
GaugesFrame(g) ==
  [NoFrame EXCEPT
     !.mode = 4,
     !.values = <<g.local_rpm, g.local_engineLoad, g.local_fuelGauge>>]

\* The history of one call of loop(), as it is between calls.
LoopHistReset ==
  /\ snapshotAt' = 0
  /\ sectionsTaken' = 0
  /\ linkAtSnapshot' = TRUE
  /\ sharedChanged' = FALSE

\* tapCounter > 0 && (millis() - lastTapTime) > tapTimeout
TapExpired(tc, nowMs, lt) == tc > 0 /\ nowMs - lt > tapTimeout

LoopInput_AnyCount ==
  /\ loopPc = "start"
  /\ \E edge \in BOOLEAN :
       /\ edge => tapsLeft > 0
       /\ tapsLeft' = IF edge THEN tapsLeft - 1 ELSE tapsLeft
       /\ LET tc == IF edge THEN tapCounter + 1 ELSE tapCounter
              lt == IF edge THEN clock ELSE lastTapTime
              expired == TapExpired(tc, clock, lt)
              left == IF expired THEN 0 ELSE tc
          IN  /\ sectionsTaken' = 0
              /\ sharedChanged' = FALSE
              /\ lastTapTime' = lt
              /\ tapCounter' = left
              /\ local_mode' = IF expired THEN tc ELSE local_mode
              /\ frame' = IF edge THEN TapFrame(tc) ELSE NoFrame
              /\ loopPc' = IF left > 0 THEN "start" ELSE "take1"
  /\ UNCHANGED <<clock, ticksUsed, connected, dropsUsed, elmReady,
                 beginFailsLeft, mutexHolder, store, obdVars, button, drag,
                 snap,
                 gauges, snapshotAt, linkAtSnapshot, committed>>

\* The button and tap-count part of loop(), up to the early return.  edge
\* is the debounced rising edge of the switch.
LoopInput ==
  /\ loopPc = "start"
  /\ \E edge \in BOOLEAN :
       /\ edge => tapsLeft > 0
       /\ tapsLeft' = IF edge THEN tapsLeft - 1 ELSE tapsLeft
       /\ LET tc == IF edge THEN tapCounter + 1 ELSE tapCounter
              lt == IF edge THEN clock ELSE lastTapTime
              expired == TapExpired(tc, clock, lt)
              left == IF expired THEN 0 ELSE tc
          IN  /\ sectionsTaken' = 0
              /\ sharedChanged' = FALSE
              /\ lastTapTime' = lt
              /\ tapCounter' = left
              /\ local_mode' = IF expired
                                 THEN IF tc >= 1 /\ tc <= 6 THEN tc ELSE 1
                                 ELSE local_mode
              /\ frame' = IF edge THEN TapFrame(tc) ELSE NoFrame
              /\ loopPc' = IF left > 0 THEN "start" ELSE "take1"
  /\ UNCHANGED <<clock, ticksUsed, connected, dropsUsed, elmReady,
                 beginFailsLeft, mutexHolder, store, obdVars, button, drag,
                 snap,
                 gauges, snapshotAt, linkAtSnapshot, committed>>

\* xSemaphoreTake(dataMutex, pdMS_TO_TICKS(10)) returns pdTRUE.
LoopTake(from, to) ==
  /\ loopPc = from
  /\ CanTake(mutexHolder)
  /\ mutexHolder' = "loop"
  /\ loopPc' = to
  /\ sectionsTaken' = sectionsTaken + 1
  /\ snapshotAt' = IF from = "take1" THEN clock ELSE snapshotAt
  /\ linkAtSnapshot' = IF from = "take1" THEN connected ELSE linkAtSnapshot
  /\ UNCHANGED <<envVars, store, obdVars, loopStatics, snap, gauges, frame,
                 sharedChanged, committed>>

\* xSemaphoreTake returns pdFALSE after the bounded wait: the call returns.
LoopTakeTimeout(from) ==
  /\ loopPc = from
  /\ mutexHolder = "obd"
  /\ loopPc' = "start"
  /\ snap' = InitSnap
  /\ gauges' = InitGauges
  /\ snapshotAt' = 0
  /\ linkAtSnapshot' = TRUE
  /\ UNCHANGED <<envVars, mutexHolder, store, obdVars, loopStatics, frame,
                 sectionsTaken, sharedChanged, committed>>

\* One copy of a global into a local of the first section.
LoopCopy(from, to, localField, globalField) ==
  /\ loopPc = from
  /\ snap' = [snap EXCEPT ![localField] = store[globalField]]
  /\ loopPc' = to
  /\ UNCHANGED <<envVars, mutexHolder, store, obdVars, loopStatics, gauges,
                 frame, loopHist, committed>>

\* One copy of a global into a local of case 4.
LoopCopyGauge(from, to, localField, globalField) ==
  /\ loopPc = from
  /\ gauges' = [gauges EXCEPT ![localField] = store[globalField]]
  /\ loopPc' = to
  /\ UNCHANGED <<envVars, mutexHolder, store, obdVars, loopStatics, snap,
                 frame, loopHist, committed>>

LoopTake1 == LoopTake("take1", "snap_kph")

LoopTake1Timeout == LoopTakeTimeout("take1")

LoopSnapKph == LoopCopy("snap_kph", "snap_maf", "local_kph", "global_vss_kph")

LoopSnapMaf == LoopCopy("snap_maf", "snap_dist", "local_maf", "global_maf")

LoopSnapDist ==
  LoopCopy("snap_dist", "snap_timer", "local_totalDistanceTraveled",
           "global_totalDistanceTraveled")

LoopSnapTimer ==
  LoopCopy("snap_timer", "snap_fuel", "local_totalDistanceTraveledTimer",
           "global_totalDistanceTraveledTimer")

LoopSnapFuel ==
  LoopCopy("snap_fuel", "snap_upd", "local_totalFuel",
           "global_totalFuelConsumed")

LoopSnapUpdate ==
  LoopCopy("snap_upd", "set_mode", "local_lastUpdate", "global_lastDataUpdate")

LoopSetMode_ClearsSpeed ==
  /\ loopPc = "set_mode"
  /\ store' = [store EXCEPT !.global_mode = local_mode,
                            !.global_vss_kph = NoReading]
  /\ sharedChanged' = (sharedChanged \/ store.global_mode # local_mode)
  /\ loopPc' = "give1"
  /\ UNCHANGED <<envVars, mutexHolder, obdVars, loopStatics, snap, gauges,
                 frame, snapshotAt, sectionsTaken, linkAtSnapshot,
                 committed>>

\* global_mode = local_mode
LoopSetMode ==
  /\ loopPc = "set_mode"
  /\ store' = [store EXCEPT !.global_mode = local_mode]
  /\ sharedChanged' = (sharedChanged \/ store.global_mode # local_mode)
  /\ loopPc' = "give1"
  /\ UNCHANGED <<envVars, mutexHolder, obdVars, loopStatics, snap, gauges,
                 frame, snapshotAt, sectionsTaken, linkAtSnapshot,
                 committed>>

\* xSemaphoreGive and display.clearDisplay, then the switch on local_mode:
\* case 4 goes on to its own section, every other case draws from the
\* copies, pushes the frame (display.display) and ends the call (delay).
LoopGive1 ==
  /\ loopPc = "give1"
  /\ mutexHolder' = "none"
  /\ committed' = store
  /\ IF local_mode = 4
       THEN /\ loopPc' = "take2"
            /\ UNCHANGED <<snap, frame, loopHist>>
       ELSE /\ loopPc' = "start"
            /\ frame' = IF local_mode = 5
                          THEN DragFrame(DragRender(drag, snap.local_kph,
                                                    clock),
                                         snap.local_kph)
                          ELSE RenderedFrame(local_mode, snap, clock,
                                             connected, snapshotAt,
                                             linkAtSnapshot)
            /\ snap' = InitSnap
            /\ LoopHistReset
  /\ drag' = IF local_mode = 5
               THEN DragRender(drag, snap.local_kph, clock)
               ELSE drag
  /\ UNCHANGED <<envVars, store, obdVars, local_mode, tapCounter,
                 lastTapTime, button, gauges>>

LoopTake2 == LoopTake("take2", "snap_rpm")

LoopTake2Timeout == LoopTakeTimeout("take2")

LoopSnapRpm == LoopCopyGauge("snap_rpm", "snap_level", "local_rpm", "global_rpm")

LoopSnapLevel ==
  LoopCopyGauge("snap_level", "snap_load", "local_fuelGauge", "global_fuel")

LoopSnapLoad ==
  LoopCopyGauge("snap_load", "give2", "local_engineLoad", "global_load")

\* xSemaphoreGive, the drawing of case 4, display.display() and delay(10).
LoopGive2 ==
  /\ loopPc = "give2"
  /\ mutexHolder' = "none"
  /\ committed' = store
  /\ frame' = GaugesFrame(gauges)
  /\ loopPc' = "start"
  /\ snap' = InitSnap
  /\ gauges' = InitGauges
  /\ LoopHistReset
  /\ UNCHANGED <<envVars, store, obdVars, loopStatics>>

\* loop() up to the end of the first section and the screens drawn from it.
LoopFirstStep ==
  \/ LoopInput \/ LoopTake1 \/ LoopTake1Timeout
  \/ LoopSnapKph \/ LoopSnapMaf \/ LoopSnapDist \/ LoopSnapTimer
  \/ LoopSnapFuel \/ LoopSnapUpdate \/ LoopSetMode \/ LoopGive1

\* case 4 of loop().
LoopGaugesStep ==
  \/ LoopTake2 \/ LoopTake2Timeout \/ LoopSnapRpm \/ LoopSnapLevel
  \/ LoopSnapLoad \/ LoopGive2

\* ------------------------------------------------------------ demo sketch
\* The demo sketch replaces obdTask by simulationTask.  Its speeds are in
\* tenths of km/h (distance over 10 * 3600000), its MAF values in hundredths
\* of g/s (fuel over 100 * 3600000, times 0.33094 for litres), its fuel level
\* in millionths of a percent.  random() is one of its two extreme results.
InitStoreDemo ==
  [global_vss_kph |-> 0, global_maf |-> 0, global_rpm |-> 0,
   global_load |-> 0, global_fuel |-> 100 * 1000000,
   global_totalDistanceTraveled |-> 0,
   global_totalDistanceTraveledTimer |-> 0,
   global_totalFuelConsumed |-> 0,
   global_lastDataUpdate |-> 0,
   global_mode |-> 1]

\* sim_phase after the phase change of one pass.
SimPhase(phase, nowMs, phaseTimer) ==
  IF nowMs - phaseTimer > PhaseMs
    THEN IF phase + 1 > 3 THEN 1 ELSE phase + 1
    ELSE phase

\* sim_speed as the case of the phase sets it.
SimSpeedValues(phase, speed) ==
  CASE phase = 0 -> {0}
    [] phase = 1 -> {IF speed + 8 > 1200 THEN 1200 ELSE speed + 8}
    [] phase = 2 -> {980, 1020}
    [] OTHER -> {IF speed - 15 < 0 THEN 0 ELSE speed - 15}

\* sim_rpm as the case of the phase sets it.
SimRpmValues(phase, speed) ==
  CASE phase = 0 -> {800 - 20, 800 + 19}
    [] phase = 1 -> {2000 + 3 * speed}
    [] phase = 2 -> {2200 - 50, 2200 + 49}
    [] OTHER -> {1000 + speed}

\* global_maf as the case of the phase sets it.
SimMafValues(phase, speed) ==
  CASE phase = 0 -> {250 - 100, 250 + 90}
    [] phase = 1 -> {2000 + 5 * speed, 2000 + 5 * speed + 400}
    [] phase = 2 -> {1500 - 200, 1500 + 100}
    [] OTHER -> {300}

\* global_load as the case of the phase sets it.
SimLoad(phase) ==
  CASE phase = 0 -> 15 [] phase = 1 -> 80 [] phase = 2 -> 30 [] OTHER -> 10

\* fuel_delta * 5 in millionths of a percent:
\* 5 * 0.33094 * 1000000 / (100 * 3600000) is 0.0046 to two digits.
FuelDrain(delta) == (delta * 46) \div 10000

\* The head of a pass: now, time_delta_ms, lastSimTime, the phase change and
\* the sim_speed and sim_rpm assignments of the phase's case.
SimPhysics ==
  /\ obdPc = "sim_top"
  /\ now' = clock
  /\ time_delta_ms' = clock - sim.lastSimTime
  /\ LET ph == SimPhase(sim.sim_phase, clock, sim.phaseTimer)
     IN  \E sp \in SimSpeedValues(ph, sim.sim_speed) :
           \E r \in SimRpmValues(ph, sp) :
             sim' = [sim_speed |-> sp, sim_rpm |-> r, sim_phase |-> ph,
                     lastSimTime |-> clock,
                     phaseTimer |-> IF ph # sim.sim_phase
                                      THEN clock ELSE sim.phaseTimer]
  /\ obdPc' = "sim_maf"
  /\ UNCHANGED <<envVars, mutexHolder, store, currentState, temp_kph,
                 prev_kph, prev_maf, lastSpeedTime, lastFuelTime,
                 lastSuccessfulMpgPollTime, dist_delta, temp_maf, fuel_delta,
                 value, obd_local_mode, obdWake, obdHist, dtcPasses,
                 loopVars, committed>>

\* global_maf = ... in the phase's case: no xSemaphoreTake precedes it.
SimSetMaf ==
  \E m \in SimMafValues(sim.sim_phase, sim.sim_speed) :
    ObdWrite("sim_maf", "sim_load", "global_maf", m)

\* global_load = ... in the phase's case: no xSemaphoreTake precedes it.
SimSetLoad ==
  ObdWrite("sim_load", "sim_integrate", "global_load", SimLoad(sim.sim_phase))

\* dist_delta and fuel_delta; fuel_rate reads global_maf.
SimIntegrate ==
  /\ obdPc = "sim_integrate"
  /\ dist_delta' = IF sim.sim_speed > 0
                     THEN sim.sim_speed * time_delta_ms ELSE 0
  /\ fuel_delta' = store.global_maf * time_delta_ms
  /\ obdPc' = "sim_drain"
  /\ UNCHANGED <<envVars, mutexHolder, store, obdStatics, now,
                 time_delta_ms, temp_maf, value, obd_local_mode, obdWake,
                 obdHist, dtcPasses, loopVars, committed>>

\* if (global_fuel > 0) global_fuel -= fuel_delta * 5: no xSemaphoreTake
\* precedes it.
SimDrainFuel ==
  ObdWrite("sim_drain", "sim_take", "global_fuel",
           IF store.global_fuel > 0
             THEN store.global_fuel - FuelDrain(fuel_delta)
             ELSE store.global_fuel)

SimTake == ObdTake("sim_take", "sim_vss")

SimSetVss == ObdWrite("sim_vss", "sim_rpm", "global_vss_kph", sim.sim_speed)

SimSetRpm == ObdWrite("sim_rpm", "sim_dist", "global_rpm", sim.sim_rpm)

SimAddDist ==
  ObdWrite("sim_dist", "sim_fuel", "global_totalDistanceTraveled",
           store.global_totalDistanceTraveled + dist_delta)

SimAddFuel ==
  ObdWrite("sim_fuel", "sim_timer", "global_totalFuelConsumed",
           store.global_totalFuelConsumed + fuel_delta)

SimAddTimer ==
  ObdWrite("sim_timer", "sim_upd", "global_totalDistanceTraveledTimer",
           IF sim.sim_speed > 0
             THEN store.global_totalDistanceTraveledTimer + time_delta_ms
             ELSE store.global_totalDistanceTraveledTimer)

SimSetUpdate == ObdWrite("sim_upd", "sim_give", "global_lastDataUpdate", now)

\* xSemaphoreGive and the start of vTaskDelay(50).
SimGive ==
  /\ obdPc = "sim_give"
  /\ mutexHolder' = "none"
  /\ committed' = store
  /\ obdWake' = clock + SimPeriodMs
  /\ obdPc' = "sim_sleep"
  /\ ObdLocalsReset
  /\ UNCHANGED <<envVars, store, obdStatics, obdHist, dtcPasses, loopVars>>

\* The delay has elapsed.
SimWake ==
  /\ obdPc = "sim_sleep"
  /\ clock >= obdWake
  /\ obdWake' = 0
  /\ obdPc' = "sim_top"
  /\ UNCHANGED <<envVars, mutexHolder, store, obdStatics, now, dist_delta,
                 time_delta_ms, temp_maf, fuel_delta, value, obd_local_mode,
                 obdHist, dtcPasses, loopVars, committed>>

SimStep ==
  \/ SimPhysics \/ SimSetMaf \/ SimSetLoad \/ SimIntegrate \/ SimDrainFuel
  \/ SimTake \/ SimSetVss \/ SimSetRpm \/ SimAddDist \/ SimAddFuel
  \/ SimAddTimer \/ SimSetUpdate \/ SimGive \/ SimWake

\* The switch part of the demo sketch's loop(): holding the switch for more
\* than HoldMs steps the mode, 4 wrapping to 1.  high is digitalRead(SWITCH).
DemoLoopInput ==
  /\ loopPc = "start"
  /\ \E high \in BOOLEAN :
       LET pressedAt == IF high /\ ~button.buttonActive
                          THEN clock ELSE button.local_lastPressed
           held == high /\ clock - pressedAt > HoldMs
       IN  /\ button' = [buttonActive |-> high,
                         local_lastPressed |-> IF held THEN clock
                                               ELSE pressedAt]
           /\ local_mode' = IF held
                              THEN IF local_mode >= 4 THEN 1
                                   ELSE local_mode + 1
                              ELSE local_mode
  /\ frame' = NoFrame
  /\ sectionsTaken' = 0
  /\ sharedChanged' = FALSE
  /\ loopPc' = "take1"
  /\ UNCHANGED <<envVars, mutexHolder, store, obdVars, tapCounter,
                 lastTapTime, drag, snap, gauges, snapshotAt, linkAtSnapshot,
                 committed>>

\* What the demo sketch draws in modes 1 to 3: the status sign is "D".
\* The efficiency figures of its screens are not recorded.
DemoFrame(mode) ==
  [NoFrame EXCEPT !.mode = mode, !.status = IF mode = 1 THEN "D" ELSE ""]

\* xSemaphoreGive of the first section, then the switch on local_mode.
DemoLoopGive1 ==
  /\ loopPc = "give1"
  /\ mutexHolder' = "none"
  /\ committed' = store
  /\ IF local_mode = 4
       THEN /\ loopPc' = "take2"
            /\ UNCHANGED <<snap, frame, loopHist>>
       ELSE /\ loopPc' = "start"
            /\ frame' = DemoFrame(local_mode)
            /\ snap' = InitSnap
            /\ LoopHistReset
  /\ UNCHANGED <<envVars, store, obdVars, loopStatics, gauges>>

\* case 4 of the demo sketch: xSemaphoreTake returns pdFALSE and the if has
\* no else, so the drawing goes on with the locals as initialised.
DemoLoopTake2Timeout ==
  /\ loopPc = "take2"
  /\ mutexHolder = "obd"
  /\ frame' = GaugesFrame(gauges)
  /\ loopPc' = "start"
  /\ snap' = InitSnap
  /\ gauges' = InitGauges
  /\ snapshotAt' = 0
  /\ linkAtSnapshot' = TRUE
  /\ UNCHANGED <<envVars, mutexHolder, store, obdVars, loopStatics,
                 sectionsTaken, sharedChanged, committed>>

DemoLoopStep ==
  \/ DemoLoopInput \/ LoopTake1 \/ LoopTake1Timeout
  \/ LoopSnapKph \/ LoopSnapMaf \/ LoopSnapDist \/ LoopSnapTimer
  \/ LoopSnapFuel \/ LoopSnapUpdate \/ LoopSetMode \/ DemoLoopGive1
  \/ LoopTake2 \/ DemoLoopTake2Timeout \/ LoopSnapRpm \/ LoopSnapLevel
  \/ LoopSnapLoad \/ LoopGive2

\* ------------------------------------------------------------ the program
\* What every sketch has at the end of setup(): the mutex free, the task
\* and the loop at their first statement, nothing drawn since the splash
\* screen.  The environment may still advance the clock ticks times and drop
\* the link drops times.
Started(ticks, drops) ==
  /\ ticksUsed = MaxTicks - ticks
  /\ connected = TRUE /\ dropsUsed = MaxDrops - drops /\ tapsLeft = 0
  /\ elmReady = TRUE /\ reconnectAt = 0
  /\ mutexHolder = "none"
  /\ committed = store
  /\ currentState = "KPH"
  /\ temp_kph = 0 /\ prev_kph = 0 /\ prev_maf = 0
  /\ lastSpeedTime = 0 /\ lastFuelTime = 0 /\ lastSuccessfulMpgPollTime = 0
  /\ now = 0 /\ dist_delta = 0 /\ time_delta_ms = 0 /\ temp_maf = 0
  /\ fuel_delta = 0 /\ value = 0 /\ obd_local_mode = 1 /\ obdWake = 0
  /\ dtcPasses = FALSE
  /\ kphFresh = TRUE /\ mafFresh = TRUE
  /\ kphPrev = "none" /\ mafPrev = "none" /\ secPrev = "none"
  /\ loopPc = "start"
  /\ snap = InitSnap /\ gauges = InitGauges /\ frame = NoFrame
  /\ snapshotAt = 0 /\ sectionsTaken = 0
  /\ linkAtSnapshot = TRUE /\ sharedChanged = FALSE

\* The OBD sketch shortly after setup(): the link is up, no query has
\* resolved yet, the switch has been tapped taps times right after setup's
\* delay(500) and tapTimeout has just run out.
Startup(taps, ticks, drops) ==
  /\ clock = SetupDelayMs + tapTimeout + 1
  /\ store = InitStore
  /\ obdPc = "top"
  /\ sim = InitSim /\ button = InitButton /\ drag = InitDrag
  /\ local_mode = 1 /\ tapCounter = taps /\ lastTapTime = SetupDelayMs
  /\ beginFailsLeft = 0
  /\ Started(ticks, drops)

\* The efficiency screen (mode 1, the switch untouched): the speed and MAF
\* cycle, link loss and reconnection, the first section of loop().
Init == Startup(0, MaxTicks, MaxDrops)

Next == Tick \/ LinkDrop \/ ObdPrimaryStep \/ ObdDownStep \/ LoopFirstStep

Spec == Init /\ [][Next]_vars

\* The gauges screen (mode 4 selected by four taps): the five-state polling
\* cycle and both sections of loop(), with the link up and the clock still.
InitGaugesMode == Startup(4, 0, 0)

NextGauges ==
  ObdPrimaryStep \/ ObdSecondaryStep \/ LoopFirstStep \/ LoopGaugesStep

SpecGauges == InitGaugesMode /\ [][NextGauges]_vars

\* The demo sketch at the end of setup(): simulationTask has just been
\* created, the loop starts in mode 3.
InitDemo ==
  /\ clock = DemoSetupDelayMs
  /\ store = InitStoreDemo
  /\ obdPc = "sim_top"
  /\ sim = [InitSim EXCEPT !.lastSimTime = DemoSetupDelayMs]
  /\ button = InitButton /\ drag = InitDrag
  /\ local_mode = 3 /\ tapCounter = 0 /\ lastTapTime = 0
  /\ beginFailsLeft = 0
  /\ Started(MaxTicks, 0)

NextDemo == Tick \/ SimStep \/ DemoLoopStep

SpecDemo == InitDemo /\ [][NextDemo]_vars

\* obdTask and its environment alone, loop() resting between two calls with
\* the efficiency screen (mode 1) or the gauges screen (mode 4) selected and
\* published: the whole polling cycle, link loss, reconnection with a
\* begin() that may fail, and the clock.
InitProducer ==
  /\ clock = SetupDelayMs + tapTimeout + 1
  /\ \E m \in {1, 4} :
       /\ store = [InitStore EXCEPT !.global_mode = m]
       /\ local_mode = m
  /\ obdPc = "top"
  /\ sim = InitSim /\ button = InitButton /\ drag = InitDrag
  /\ tapCounter = 0 /\ lastTapTime = SetupDelayMs
  /\ beginFailsLeft = MaxBeginFails
  /\ Started(MaxTicks, MaxDrops)

NextProducer ==
  Tick \/ LinkDrop \/ ObdPrimaryStep \/ ObdSecondaryStep \/ ObdDownStep

SpecProducer == InitProducer /\ [][NextProducer]_vars

\* obdTask alone in mode 1: the speed and MAF states and the link-down
\* branch, with the scheduling the platform gives: millis() keeps counting
\* and obdTask, pinned to its core, runs whenever it is runnable.
NextReconnect == Tick \/ LinkDrop \/ ObdPrimaryStep \/ ObdDownStep

SpecReconnect == Init /\ [][NextReconnect]_vars

SpecReconnectFair ==
  /\ SpecReconnect
  /\ WF_vars(Tick)
  /\ WF_vars(ObdPrimaryStep \/ ObdDownStep)

\* obdTask with the diagnostics screen (mode 6) selected and published,
\* the link up: the speed and MAF states and the diagnostics state, with
\* the scheduling the platform gives.
InitDiagnostics ==
  /\ clock = SetupDelayMs + tapTimeout + 1
  /\ store = [InitStore EXCEPT !.global_mode = 6]
  /\ local_mode = 6
  /\ obdPc = "top"
  /\ sim = InitSim /\ button = InitButton /\ drag = InitDrag
  /\ tapCounter = 0 /\ lastTapTime = SetupDelayMs
  /\ beginFailsLeft = 0
  /\ Started(MaxTicks, 0)

NextDiagnostics == Tick \/ ObdPrimaryStep \/ ObdDtc

SpecDiagnostics == InitDiagnostics /\ [][NextDiagnostics]_vars

SpecDiagnosticsFair ==
  /\ SpecDiagnostics
  /\ WF_vars(Tick)
  /\ WF_vars(ObdPrimaryStep \/ ObdDtc)

\* The drag screen (mode 5) selected and published: obdTask polls the speed
\* only, loop() takes its section and draws case 5 while time passes.
InitDragMode ==
  /\ clock = SetupDelayMs + tapTimeout + 1
  /\ store = [InitStore EXCEPT !.global_mode = 5]
  /\ local_mode = 5
  /\ obdPc = "top"
  /\ sim = InitSim /\ button = InitButton /\ drag = InitDrag
  /\ tapCounter = 0 /\ lastTapTime = SetupDelayMs
  /\ beginFailsLeft = 0
  /\ Started(MaxTicks, 0)

NextDrag == Tick \/ ObdSpeedStep \/ LoopFirstStep

SpecDrag == InitDragMode /\ [][NextDrag]_vars

\* The switch has been tapped X times right after setup's delay(500) and
\* left alone for just over the second the README asks for; obdTask polls
\* with the link up while loop() waits for tapTimeout, selects mode X and
\* publishes it.
TapCounts == 1 .. 6

InitTaps ==
  /\ clock = SetupDelayMs + 1001
  /\ store = InitStore
  /\ obdPc = "top"
  /\ sim = InitSim /\ button = InitButton /\ drag = InitDrag
  /\ local_mode = 1 /\ lastTapTime = SetupDelayMs
  /\ tapCounter \in TapCounts
  /\ beginFailsLeft = 0
  /\ Started(MaxTicks, 0)

NextTaps ==
  \/ Tick \/ ObdPrimaryStep \/ ObdSecondaryStep \/ ObdDtc
  \/ LoopFirstStep \/ LoopGaugesStep

SpecTaps == InitTaps /\ [][NextTaps]_vars

\* Every screen: the switch was tapped X times right after setup's delay
\* and tapTimeout has just run out, so loop() selects mode X and publishes
\* it while obdTask polls with the link up and the clock still.
InitModes == \E taps \in TapCounts : Startup(taps, 0, 0)

NextModes ==
  \/ ObdPrimaryStep \/ ObdSecondaryStep \/ ObdDtc
  \/ LoopFirstStep \/ LoopGaugesStep

SpecModes == InitModes /\ [][NextModes]_vars

\* ------------------------------------------------ the first dual-core sketch
\* part_003, cases ODB_STATE_RPM, ODB_STATE_LOAD and ODB_STATE_FUEL: a
\* successful query publishes the value and moves on; any other resolved
\* query only calls printError, so the state is kept and the query is
\* issued again.  The sections write the reading and nothing else.
EarlyPollRpm == ObdPollSecondary("RPM", RpmValues, "rpm_take", "RPM")

EarlyRpmSetRpm == ObdWrite("rpm_val", "rpm_give", "global_rpm", value)

EarlyPollLoad == ObdPollSecondary("LOAD", LoadValues, "load_take", "LOAD")

EarlyLoadSetLoad == ObdWrite("load_val", "load_give", "global_load", value)

EarlyPollFuel ==
  ObdPollSecondary("FUEL", FuelLevelValues, "fuel_take", "FUEL")

EarlyFuelSetFuel == ObdWrite("fuel_val", "fuel_give", "global_fuel", value)

EarlySecondaryStep ==
  \/ EarlyPollRpm \/ ObdRpmTake \/ EarlyRpmSetRpm \/ ObdRpmGive
  \/ EarlyPollLoad \/ ObdLoadTake \/ EarlyLoadSetLoad \/ ObdLoadGive
  \/ EarlyPollFuel \/ ObdFuelTake \/ EarlyFuelSetFuel \/ ObdFuelGive

\* part_003 with its gauges screen (mode 3) selected, at the end of the
\* section of a successful MAF poll: a speed and a MAF value are published
\* and obdTask has just chosen the rpm state.
InitEarly ==
  \E kph \in KphValues, maf \in MafRawValues :
    /\ clock = SetupDelayMs + tapTimeout + 1
    /\ ticksUsed = 0 /\ connected = TRUE /\ dropsUsed = MaxDrops
    /\ tapsLeft = 0 /\ elmReady = TRUE /\ reconnectAt = 0
    /\ beginFailsLeft = 0
    /\ mutexHolder = "none"
    /\ store = [InitStore EXCEPT !.global_mode = 3,
                                 !.global_vss_kph = kph,
                                 !.global_maf = maf,
                                 !.global_lastDataUpdate = clock]
    /\ committed = store
    /\ obdPc = "top" /\ currentState = "RPM"
    /\ temp_kph = kph /\ prev_kph = 0 /\ prev_maf = 0
    /\ lastSpeedTime = 0 /\ lastFuelTime = 0
    /\ lastSuccessfulMpgPollTime = clock
    /\ now = 0 /\ dist_delta = 0 /\ time_delta_ms = 0 /\ temp_maf = 0
    /\ fuel_delta = 0 /\ value = 0 /\ obd_local_mode = 1 /\ obdWake = 0
    /\ dtcPasses = FALSE
    /\ kphFresh = FALSE /\ mafFresh = FALSE
    /\ kphPrev = "success" /\ mafPrev = "success" /\ secPrev = "none"
    /\ sim = InitSim /\ button = InitButton /\ drag = InitDrag
    /\ local_mode = 3 /\ tapCounter = 0 /\ lastTapTime = SetupDelayMs
    /\ loopPc = "start"
    /\ snap = InitSnap /\ gauges = InitGauges /\ frame = NoFrame
    /\ snapshotAt = 0 /\ sectionsTaken = 0
    /\ linkAtSnapshot = TRUE /\ sharedChanged = FALSE

NextEarly == Tick \/ EarlySecondaryStep

SpecEarly == InitEarly /\ [][NextEarly]_vars

\* Tap counts tried on the switch: five of the modes and one tap too many.
\* One tap is left out, so that mode 1 is reached by seven taps only.
TapsTried == 2 .. 7

\* The gauges screen selected and published; the switch has since been
\* tapped again, two to seven times, and tapTimeout has just run out: loop()
\* selects the new mode at its next call, wherever obdTask is in its cycle.
InitSwitch ==
  /\ clock = SetupDelayMs + tapTimeout + 1
  /\ store = [InitStore EXCEPT !.global_mode = 4]
  /\ local_mode = 4
  /\ obdPc = "top"
  /\ sim = InitSim /\ button = InitButton /\ drag = InitDrag
  /\ tapCounter \in TapsTried /\ lastTapTime = SetupDelayMs
  /\ beginFailsLeft = 0
  /\ Started(0, 0)

SpecSwitch == InitSwitch /\ [][NextModes]_vars

\* The mutex between the two threads: the gauges screen just selected with
\* the link up and the clock still (all five sections of obdTask, both
\* sections of loop()), or the drag screen selected and published with
\* time passing and the link dropping (the speed section, the link-down
\* section, the reconnection and its delay).
InitMutex ==
  \/ Startup(4, 0, 0)
  \/ /\ clock = SetupDelayMs + tapTimeout + 1
     /\ store = [InitStore EXCEPT !.global_mode = 5]
     /\ local_mode = 5
     /\ obdPc = "top"
     /\ sim = InitSim /\ button = InitButton /\ drag = InitDrag
     /\ tapCounter = 0 /\ lastTapTime = SetupDelayMs
     /\ beginFailsLeft = 0
     /\ Started(MaxTicks, MaxDrops)

NextMutex ==
  \/ Tick \/ LinkDrop
  \/ ObdPrimaryStep \/ ObdSecondaryStep \/ ObdDownStep
  \/ LoopFirstStep \/ LoopGaugesStep

SpecMutex == InitMutex /\ [][NextMutex]_vars

\* obdTask is a task of its own on core 0: a step it can take is taken.
SpecMutexFair ==
  /\ SpecMutex
  /\ WF_vars(ObdPrimaryStep \/ ObdSecondaryStep \/ ObdDownStep)

\* ---------------------------------------------------------- drag screen
\* Snapshot speeds in km/h: standstill, 0.6 mph, 31 mph, 62 mph, 81 mph.
DragSpeeds == {0, 1, 50, 100, 130}

\* Milliseconds between two renders of the drag screen.
DragGaps == {20000, 100000}

\* The renders of this specification end here: after a run that was cut
\* off at three minutes and the beginning of the next one.
DragHorizonMs == SetupDelayMs + tapTimeout + 1 + 260000

\* loop() with the drag screen selected, from the end of one call to the
\* xSemaphoreGive of the first section of a later call: time has passed, and
\* the speed obdTask published last is the one copied.
LoopNextSnapshot ==
  /\ loopPc = "start" /\ local_mode = 5
  /\ \E kph \in DragSpeeds, gap \in DragGaps :
       /\ clock + gap <= DragHorizonMs
       /\ clock' = clock + gap
       /\ store' = [store EXCEPT !.global_vss_kph = kph,
                                 !.global_lastDataUpdate = clock + gap]
       /\ snap' = [InitSnap EXCEPT !.local_kph = kph,
                                   !.local_lastUpdate = clock + gap]
  /\ committed' = store'
  /\ loopPc' = "give1"
  /\ mutexHolder' = "loop"
  /\ sectionsTaken' = 1
  /\ snapshotAt' = clock'
  /\ UNCHANGED <<ticksUsed, connected, dropsUsed, tapsLeft, elmReady,
                 beginFailsLeft, obdVars, loopStatics, gauges, frame,
                 linkAtSnapshot, sharedChanged>>

\* The drag screen selected and published, nothing drawn yet.
InitDragRun ==
  /\ clock = SetupDelayMs + tapTimeout + 1
  /\ store = [InitStore EXCEPT !.global_mode = 5]
  /\ local_mode = 5
  /\ obdPc = "top"
  /\ sim = InitSim /\ button = InitButton /\ drag = InitDrag
  /\ tapCounter = 0 /\ lastTapTime = SetupDelayMs
  /\ beginFailsLeft = 0
  /\ Started(0, 0)

NextDragRun == LoopNextSnapshot \/ LoopGive1

SpecDragRun == InitDragRun /\ [][NextDragRun]_vars

\* ------------------------------------------------------------ trip screen
\* Durations around the minute, the hour and the 16-bit range of seconds,
\* up to the largest one a 32-bit signed number holds.
TripDurations ==
  {0, 999, 1000, 59999, 60000, 3599999, 3600000, 36000000, 65535999,
   65536000, 2147483647}

\* loop() at the xSemaphoreGive of its first section with the trip screen
\* (mode 2) selected: millis() and the moving time copied from the globals
\* are durations of the sample, the moving time no longer than the uptime.
InitTrip ==
  /\ clock \in TripDurations
  /\ loopPc = "give1" /\ local_mode = 2
  /\ \E t \in TripDurations :
       /\ t <= clock
       /\ store = [InitStore EXCEPT !.global_mode = 2,
                                    !.global_totalDistanceTraveledTimer = t]
  /\ snap = [local_kph |-> store.global_vss_kph,
             local_maf |-> store.global_maf,
             local_totalDistanceTraveled |-> store.global_totalDistanceTraveled,
             local_totalDistanceTraveledTimer
               |-> store.global_totalDistanceTraveledTimer,
             local_totalFuel |-> store.global_totalFuelConsumed,
             local_lastUpdate |-> store.global_lastDataUpdate]
  /\ mutexHolder = "loop" /\ sectionsTaken = 1 /\ snapshotAt = clock
  /\ committed = store
  /\ obdPc = "top"
  /\ sim = InitSim /\ button = InitButton /\ drag = InitDrag
  /\ tapCounter = 0 /\ lastTapTime = SetupDelayMs
  /\ beginFailsLeft = 0
  /\ ticksUsed = MaxTicks
  /\ connected = TRUE /\ dropsUsed = MaxDrops /\ tapsLeft = 0
  /\ elmReady = TRUE /\ reconnectAt = 0
  /\ currentState = "KPH"
  /\ temp_kph = 0 /\ prev_kph = 0 /\ prev_maf = 0
  /\ lastSpeedTime = 0 /\ lastFuelTime = 0 /\ lastSuccessfulMpgPollTime = 0
  /\ now = 0 /\ dist_delta = 0 /\ time_delta_ms = 0 /\ temp_maf = 0
  /\ fuel_delta = 0 /\ value = 0 /\ obd_local_mode = 1 /\ obdWake = 0
  /\ dtcPasses = FALSE
  /\ kphFresh = TRUE /\ mafFresh = TRUE
  /\ kphPrev = "none" /\ mafPrev = "none" /\ secPrev = "none"
  /\ gauges = InitGauges /\ frame = NoFrame
  /\ linkAtSnapshot = TRUE /\ sharedChanged = FALSE

NextTrip == LoopGive1

SpecTrip == InitTrip /\ [][NextTrip]_vars

\* ------------------------------------------------------------- integrator
\* The two delta computations of obdTask on their own, applied to samples
\* up to an hour apart.  The MAF samples of this specification are in
\* tenths of g/s (fuel over 10 * 2 * 3600000), so that an hour of
\* milliseconds times a sum of two samples is a 32-bit integer.
SampleKph == {0, 80, 100}
SampleMaf == {CorrectedMaf(raw) \div 10 : raw \in MafRawValues}
SampleNow == {3600000, 3601000}
SampleLast == {0, 1000}

\* obdTask with a successful speed query and a successful MAF query in hand:
\* the new samples, the previous samples and the times they were taken at.
InitIntegrator ==
  /\ clock \in SampleNow
  /\ store = InitStore
  /\ obdPc = "integrate_kph"
  /\ sim = InitSim /\ button = InitButton /\ drag = InitDrag
  /\ local_mode = 1 /\ tapCounter = 0 /\ lastTapTime = SetupDelayMs
  /\ beginFailsLeft = 0
  /\ ticksUsed = MaxTicks
  /\ connected = TRUE /\ dropsUsed = MaxDrops /\ tapsLeft = 0
  /\ elmReady = TRUE /\ reconnectAt = 0
  /\ mutexHolder = "none"
  /\ committed = store
  /\ currentState = "KPH"
  /\ temp_kph \in SampleKph /\ prev_kph \in SampleKph
  /\ lastSpeedTime \in SampleLast
  /\ temp_maf \in SampleMaf /\ prev_maf \in SampleMaf
  /\ lastFuelTime \in SampleLast
  /\ lastSuccessfulMpgPollTime = 0
  /\ now = clock /\ dist_delta = 0 /\ time_delta_ms = 0
  /\ fuel_delta = 0 /\ value = 0 /\ obd_local_mode = 1 /\ obdWake = 0
  /\ dtcPasses = FALSE
  /\ kphFresh = FALSE /\ mafFresh = FALSE
  /\ kphPrev = "success" /\ mafPrev = "success" /\ secPrev = "none"
  /\ loopPc = "start"
  /\ snap = InitSnap /\ gauges = InitGauges /\ frame = NoFrame
  /\ snapshotAt = 0 /\ sectionsTaken = 0
  /\ linkAtSnapshot = TRUE /\ sharedChanged = FALSE

\* The ELM_SUCCESS branch of case OBD_STATE_KPH up to the cache update.
IntegrateSpeed ==
  /\ obdPc = "integrate_kph"
  /\ time_delta_ms' = SpeedTimeDelta(now, lastSpeedTime)
  /\ dist_delta' = DistDelta(temp_kph, prev_kph, now, lastSpeedTime)
  /\ lastSpeedTime' = now
  /\ prev_kph' = temp_kph
  /\ obdPc' = "integrate_maf"
  /\ UNCHANGED <<envVars, mutexHolder, store, currentState, temp_kph,
                 prev_maf, lastFuelTime, lastSuccessfulMpgPollTime, sim, now,
                 temp_maf, fuel_delta, value, obd_local_mode, obdWake,
                 obdHist, dtcPasses, loopVars, committed>>

\* The ELM_SUCCESS branch of case OBD_STATE_MAF up to the cache update.
IntegrateMaf ==
  /\ obdPc = "integrate_maf"
  /\ fuel_delta' = FuelDelta(temp_maf, prev_maf, now, lastFuelTime)
  /\ lastFuelTime' = now
  /\ prev_maf' = temp_maf
  /\ obdPc' = "integrated"
  /\ UNCHANGED <<envVars, mutexHolder, store, currentState, temp_kph,
                 prev_kph, lastSpeedTime, lastSuccessfulMpgPollTime, sim, now,
                 dist_delta, time_delta_ms, temp_maf, value, obd_local_mode,
                 obdWake, obdHist, dtcPasses, loopVars, committed>>

NextIntegrator == IntegrateSpeed \/ IntegrateMaf

SpecIntegrator == InitIntegrator /\ [][NextIntegrator]_vars

\* ------------------------------------------------------------- tick wrap
\* The integrator with millis() at its full width: a uint32_t is kept as
\* two 16-bit halves, and + and - are taken modulo 2^32.
Add32(a, b) ==
  [hi |-> (a.hi + b.hi + (a.lo + b.lo) \div 65536) % 65536,
   lo |-> (a.lo + b.lo) % 65536]

Sub32(a, b) ==
  [hi |-> (a.hi - b.hi - (IF a.lo < b.lo THEN 1 ELSE 0) + 65536) % 65536,
   lo |-> (a.lo - b.lo + 65536) % 65536]

\* The value of a uint32_t below 2^31.
Val32(a) == a.hi * 65536 + a.lo

\* a > 0 for a uint32_t.
Positive32(a) == a.hi > 0 \/ a.lo > 0

\* Ticks of the previous sample: 0, 1, 1000, and 1 s, 1 ms and 1 h before
\* the counter wraps.
WrapStamps ==
  {[hi |-> 0, lo |-> 0], [hi |-> 0, lo |-> 1], [hi |-> 0, lo |-> 1000],
   [hi |-> 65535, lo |-> 64536], [hi |-> 65535, lo |-> 65535],
   [hi |-> 65481, lo |-> 4480]}

\* Milliseconds between two samples: 1 ms, 1 s, 1 h.
WrapGaps ==
  {[hi |-> 0, lo |-> 1], [hi |-> 0, lo |-> 1000], [hi |-> 54, lo |-> 61056]}

\* obdTask with a successful speed query and a successful MAF query in
\* hand, an earlier sample of each channel taken since the last reset: the
\* earlier speed sample at one of the ticks above, the new samples up to an
\* hour later, the earlier MAF sample up to an hour before them.
InitTickWrap ==
  /\ clock = SetupDelayMs + tapTimeout + 1
  /\ store = InitStore
  /\ obdPc = "wrap_kph"
  /\ sim = InitSim /\ button = InitButton /\ drag = InitDrag
  /\ local_mode = 1 /\ tapCounter = 0 /\ lastTapTime = SetupDelayMs
  /\ beginFailsLeft = 0
  /\ ticksUsed = MaxTicks
  /\ connected = TRUE /\ dropsUsed = MaxDrops /\ tapsLeft = 0
  /\ elmReady = TRUE /\ reconnectAt = 0
  /\ mutexHolder = "none"
  /\ committed = store
  /\ currentState = "KPH"
  /\ temp_kph = 100 /\ prev_kph = 80
  /\ temp_maf = 216 /\ prev_maf = 216
  /\ lastSpeedTime \in WrapStamps
  /\ \E gap \in WrapGaps : now = Add32(lastSpeedTime, gap)
  /\ \E gap \in WrapGaps : lastFuelTime = Sub32(now, gap)
  /\ lastSuccessfulMpgPollTime = 0
  /\ dist_delta = 0 /\ time_delta_ms = [hi |-> 0, lo |-> 0]
  /\ fuel_delta = 0 /\ value = 0 /\ obd_local_mode = 1 /\ obdWake = 0
  /\ dtcPasses = FALSE
  /\ kphFresh = FALSE /\ mafFresh = FALSE
  /\ kphPrev = "success" /\ mafPrev = "success" /\ secPrev = "none"
  /\ loopPc = "start"
  /\ snap = InitSnap /\ gauges = InitGauges /\ frame = NoFrame
  /\ snapshotAt = 0 /\ sectionsTaken = 0
  /\ linkAtSnapshot = TRUE /\ sharedChanged = FALSE

\* The ELM_SUCCESS branch of case OBD_STATE_KPH up to the cache update:
\* if (lastSpeedTime > 0) guards the subtraction.
WrapIntegrateSpeed ==
  /\ obdPc = "wrap_kph"
  /\ LET delta == IF Positive32(lastSpeedTime)
                    THEN Sub32(now, lastSpeedTime)
                    ELSE [hi |-> 0, lo |-> 0]
     IN  /\ time_delta_ms' = delta
         /\ dist_delta' = IF Positive32(lastSpeedTime)
                               /\ (temp_kph > 0 \/ prev_kph > 0)
                            THEN (temp_kph + prev_kph) * Val32(delta)
                            ELSE 0
  /\ lastSpeedTime' = now
  /\ prev_kph' = temp_kph
  /\ obdPc' = "wrap_maf"
  /\ UNCHANGED <<envVars, mutexHolder, store, currentState, temp_kph,
                 prev_maf, lastFuelTime, lastSuccessfulMpgPollTime, sim, now,
                 temp_maf, fuel_delta, value, obd_local_mode, obdWake,
                 obdHist, dtcPasses, loopVars, committed>>

\* The ELM_SUCCESS branch of case OBD_STATE_MAF up to the cache update.
WrapIntegrateMaf ==
  /\ obdPc = "wrap_maf"
  /\ fuel_delta' = IF Positive32(lastFuelTime)
                        /\ (temp_maf > 0 \/ prev_maf > 0)
                     THEN (temp_maf + prev_maf)
                            * Val32(Sub32(now, lastFuelTime))
                     ELSE 0
  /\ lastFuelTime' = now
  /\ prev_maf' = temp_maf
  /\ obdPc' = "wrapped"
  /\ UNCHANGED <<envVars, mutexHolder, store, currentState, temp_kph,
                 prev_kph, lastSpeedTime, lastSuccessfulMpgPollTime, sim, now,
                 dist_delta, time_delta_ms, temp_maf, value, obd_local_mode,
                 obdWake, obdHist, dtcPasses, loopVars, committed>>

NextTickWrap == WrapIntegrateSpeed \/ WrapIntegrateMaf

SpecTickWrap == InitTickWrap /\ [][NextTickWrap]_vars

\* ---------------------------------------------------------------- display
\* The drawing code of the three sketches on its own, applied to the values
\* it can be handed: the efficiency and totals screens of loop() after its
\* first section, the single screen of the first version of the sketch
\* (clamp at 90, average shown when both totals are above 0, signs "*" and
\* "?"), and the efficiency screen of the simulation sketch, which draws
\* from the globals that simulateVehicleData has just set.
V1LiveMs == 500

DisplayKph == {NoReading, 0, 50, 120}
DisplayMaf == {NoReading, 0, 300, 2160}
DisplayDistance == {0, MinAvgDistance, 10 * MinAvgDistance}
DisplayFuel == {0, MinAvgFuel, 10 * MinAvgFuel}
SimKph == {1, 60, 120}

\* global_rpm = global_kph * 40 + 800 and global_maf = global_rpm / 150.0,
\* in hundredths of g/s.
SimMaf(kph) == ((kph * 40 + 800) * 100) \div 150

\* The large figure of the first version: "--" in both else branches.
V1InstText(s) ==
  IF s.local_kph > 0 /\ s.local_maf > 0
    THEN [text |-> "num",
          n |-> InstMpgCapped(s.local_kph, s.local_maf, MaxInstMpgV1)]
    ELSE [text |-> "--", n |-> 0]

\* The small figure of the first version.
V1AvgText(s) ==
  IF s.local_totalDistanceTraveled > 0 /\ s.local_totalFuel > 0
    THEN "num" ELSE "--"

V1Frame(s, nowMs) ==
  [NoFrame EXCEPT
     !.mode = 1, !.inst = V1InstText(s), !.avg = V1AvgText(s),
     !.status = IF nowMs - s.local_lastUpdate < V1LiveMs THEN "*" ELSE "?",
     !.age = nowMs - s.local_lastUpdate,
     !.lastUpdate = s.local_lastUpdate]

\* The large figure of the simulation sketch: the quotient is printed when
\* it is above 0 and below 99, "--" otherwise; the average is the text "24".
SimInstText(kph, maf) ==
  IF kph > 0 /\ maf > 0 /\ (MpgPerKphOverMaf * kph) \div maf < MaxInstMpg * 1000
    THEN [text |-> "num", n |-> InstMpg(kph, maf)]
    ELSE [text |-> "--", n |-> 0]

SimFrame(st) ==
  [NoFrame EXCEPT
     !.mode = 1, !.inst = SimInstText(st.global_vss_kph, st.global_maf),
     !.avg = "num", !.status = "D"]

\* The globals a snapshot s was copied from, mode m being selected.
StoreOf(s, m) ==
  [InitStore EXCEPT
     !.global_vss_kph = s.local_kph, !.global_maf = s.local_maf,
     !.global_totalDistanceTraveled = s.local_totalDistanceTraveled,
     !.global_totalDistanceTraveledTimer = s.local_totalDistanceTraveledTimer,
     !.global_totalFuelConsumed = s.local_totalFuel,
     !.global_lastDataUpdate = s.local_lastUpdate,
     !.global_mode = m]

DisplaySnaps ==
  [local_kph : DisplayKph, local_maf : DisplayMaf,
   local_totalDistanceTraveled : DisplayDistance,
   local_totalDistanceTraveledTimer : {0},
   local_totalFuel : DisplayFuel,
   local_lastUpdate : {SetupDelayMs + tapTimeout + 1}]

\* loop() at the xSemaphoreGive of its first section with the copies made
\* (the efficiency or the totals screen selected), the first version at the
\* xSemaphoreGive of its section, or the simulation sketch about to draw.
InitDisplay ==
  /\ clock = SetupDelayMs + tapTimeout + 1
  /\ \/ /\ loopPc = "give1"
        /\ local_mode \in {1, 3}
        /\ snap \in DisplaySnaps
        /\ store = StoreOf(snap, local_mode)
        /\ mutexHolder = "loop" /\ sectionsTaken = 1 /\ snapshotAt = clock
     \/ /\ loopPc = "v1_give"
        /\ local_mode = 1
        /\ snap \in DisplaySnaps
        /\ store = StoreOf(snap, 1)
        /\ mutexHolder = "loop" /\ sectionsTaken = 1 /\ snapshotAt = clock
     \/ /\ loopPc = "sim_draw"
        /\ local_mode = 1
        /\ snap = InitSnap
        /\ \E k \in SimKph :
             store = [InitStore EXCEPT !.global_vss_kph = k,
                                       !.global_maf = SimMaf(k)]
        /\ mutexHolder = "none" /\ sectionsTaken = 0 /\ snapshotAt = 0
  /\ committed = store
  /\ obdPc = "top"
  /\ sim = InitSim /\ button = InitButton /\ drag = InitDrag
  /\ tapCounter = 0 /\ lastTapTime = SetupDelayMs
  /\ beginFailsLeft = 0
  /\ ticksUsed = MaxTicks
  /\ connected = TRUE /\ dropsUsed = MaxDrops /\ tapsLeft = 0
  /\ elmReady = TRUE /\ reconnectAt = 0
  /\ currentState = "KPH"
  /\ temp_kph = 0 /\ prev_kph = 0 /\ prev_maf = 0
  /\ lastSpeedTime = 0 /\ lastFuelTime = 0 /\ lastSuccessfulMpgPollTime = 0
  /\ now = 0 /\ dist_delta = 0 /\ time_delta_ms = 0 /\ temp_maf = 0
  /\ fuel_delta = 0 /\ value = 0 /\ obd_local_mode = 1 /\ obdWake = 0
  /\ dtcPasses = FALSE
  /\ kphFresh = TRUE /\ mafFresh = TRUE
  /\ kphPrev = "none" /\ mafPrev = "none" /\ secPrev = "none"
  /\ gauges = InitGauges /\ frame = NoFrame
  /\ linkAtSnapshot = TRUE /\ sharedChanged = FALSE

\* loop() of the first version: xSemaphoreGive, the calculations, the
\* drawing, display.display() and delay(100).
V1LoopGive ==
  /\ loopPc = "v1_give"
  /\ mutexHolder' = "none"
  /\ committed' = store
  /\ frame' = V1Frame(snap, clock)
  /\ loopPc' = "start"
  /\ snap' = InitSnap
  /\ LoopHistReset
  /\ UNCHANGED <<envVars, store, obdVars, loopStatics, gauges>>

\* case 1 of loop() of the simulation sketch, drawn from the globals.
SimLoopDraw ==
  /\ loopPc = "sim_draw"
  /\ frame' = SimFrame(store)
  /\ loopPc' = "start"
  /\ UNCHANGED <<envVars, mutexHolder, store, obdVars, loopStatics, snap,
                 gauges, loopHist, committed>>

NextDisplay == LoopGive1 \/ V1LoopGive \/ SimLoopDraw

SpecDisplay == InitDisplay /\ [][NextDisplay]_vars

\* ============================================================== properties
Totals(st) ==
  <<st.global_totalDistanceTraveled, st.global_totalFuelConsumed,
    st.global_totalDistanceTraveledTimer>>

DownPcs == {"down_vss", "down_give", "reconnect", "sleep"}

\* A speed (MAF) query resolves with ELM_SUCCESS in this step.
KphSucceeds == obdPc = "top" /\ obdPc' = "kph_take"
MafSucceeds == obdPc = "top" /\ obdPc' = "maf_take"

\* C1: the cumulative distance and the cumulative fuel never decrease: no
\* step lowers them in the store, nor in the store as it stands at a
\* release of the mutex, which is what a snapshot of the loop copies.
C1_TotalsNeverDecrease ==
  [][/\ store'.global_totalDistanceTraveled
          >= store.global_totalDistanceTraveled
     /\ store'.global_totalFuelConsumed >= store.global_totalFuelConsumed
     /\ committed'.global_totalDistanceTraveled
          >= committed.global_totalDistanceTraveled
     /\ committed'.global_totalFuelConsumed
          >= committed.global_totalFuelConsumed]_vars

\* A snapshot has copied totals that have grown.
C1_Witness ==
  /\ loopPc = "give1"
  /\ snap.local_totalDistanceTraveled > 0
  /\ snap.local_totalFuel > 0

\* C2: the first successful speed poll and the first successful MAF poll
\* after startup and after every link-down episode compute a zero delta.
C2_FirstSampleAddsZero ==
  [][/\ (KphSucceeds /\ kphFresh) => dist_delta' = 0
     /\ (MafSucceeds /\ mafFresh) => fuel_delta' = 0]_vars

\* C3: no step of the link-down branch of obdTask (the invalidation of the
\* speed, the reconnect attempt, the delay) changes the cumulative distance,
\* the cumulative fuel or the moving time.
C3_LinkDownKeepsTotals ==
  [][(obdPc \in DownPcs \/ obdPc' \in DownPcs)
       => /\ Totals(store') = Totals(store)
          /\ Totals(committed') = Totals(committed)]_vars

\* The link-down branch has run with totals accumulated before the drop.
C3_Witness ==
  /\ obdPc = "sleep"
  /\ store.global_vss_kph = NoReading
  /\ store.global_totalDistanceTraveled > 0
  /\ store.global_totalFuelConsumed > 0
  /\ store.global_totalDistanceTraveledTimer > 0

\* C4 as stated: a successful poll whose preceding resolved poll of the same
\* channel failed adds a zero delta.
C4_SuccessAfterFailureAddsZero ==
  [][/\ (KphSucceeds /\ kphPrev = "fail") => dist_delta' = 0
     /\ (MafSucceeds /\ mafPrev = "fail") => fuel_delta' = 0]_vars

\* C4 amended: a failed speed or MAF poll changes neither the cumulative
\* totals nor the previous sample (value and time) of its channel, and the
\* next successful poll of the channel adds the trapezoid between the last
\* successful sample and the new one.
C4_FailureKeepsCacheAndTotals ==
  [][/\ (kphPrev # "fail" /\ kphPrev' = "fail")
          => /\ UNCHANGED <<prev_kph, lastSpeedTime>>
             /\ Totals(store') = Totals(store)
     /\ (mafPrev # "fail" /\ mafPrev' = "fail")
          => /\ UNCHANGED <<prev_maf, lastFuelTime>>
             /\ Totals(store') = Totals(store)
     /\ (KphSucceeds /\ kphPrev = "fail" /\ lastSpeedTime > 0
           /\ prev_kph > 0)
          => dist_delta' = (temp_kph' + prev_kph) * (clock - lastSpeedTime)
     /\ (MafSucceeds /\ mafPrev = "fail" /\ lastFuelTime > 0
           /\ prev_maf > 0)
          => fuel_delta' = (temp_maf' + prev_maf) * (clock - lastFuelTime)]_vars

\* A speed poll has failed after a successful one, the previous sample kept.
C4_Witness ==
  /\ kphPrev = "fail" /\ mafPrev = "fail"
  /\ clock > lastSpeedTime /\ lastSpeedTime > 0 /\ prev_kph > 0
  /\ clock > lastFuelTime /\ lastFuelTime > 0 /\ prev_maf > 0

\* The first section's copies, were they all taken from the store st.
SnapOf(st) ==
  [local_kph |-> st.global_vss_kph, local_maf |-> st.global_maf,
   local_totalDistanceTraveled |-> st.global_totalDistanceTraveled,
   local_totalDistanceTraveledTimer |-> st.global_totalDistanceTraveledTimer,
   local_totalFuel |-> st.global_totalFuelConsumed,
   local_lastUpdate |-> st.global_lastDataUpdate]

\* The copies of case 4, were they all taken from the store st.
GaugesOf(st) ==
  [local_rpm |-> st.global_rpm, local_fuelGauge |-> st.global_fuel,
   local_engineLoad |-> st.global_load]

\* C6: a snapshot never sees part of a publish: when the first section of
\* loop() has made its copies, they are the values of the store as it was
\* at one release of the mutex, that is with all of a poll's writes (value,
\* total, moving time, timestamp) or none of them.
C6_NoTornPublish ==
  loopPc \in {"set_mode", "give1"} => snap = SnapOf(committed)

\* A snapshot holding a published distance delta, taken while obdTask waits
\* to publish a MAF poll with a fuel delta.
C6_Witness ==
  /\ loopPc = "give1"
  /\ snap.local_totalDistanceTraveled > 0
  /\ snap.local_lastUpdate > 0
  /\ obdPc = "maf_take" /\ fuel_delta > 0

\* C8 as stated: one render cycle of loop() takes one critical section.
C8_SingleSection == sectionsTaken <= 1

\* C8 amended: a render cycle takes one critical section, and in Gauges mode
\* a second one for rpm, fuel level and engine load; the copies made in a
\* section all come from the store as it was at one release of the mutex,
\* and the gauges frame draws the copies of the second section only.
C8_EachSectionOneStoreState ==
  /\ sectionsTaken <= 2
  /\ sectionsTaken = 2 => local_mode = 4
  /\ loopPc \in {"set_mode", "give1"} => snap = SnapOf(committed)
  /\ loopPc = "give2" => gauges = GaugesOf(committed)

\* The second section has copied published gauge values after obdTask
\* published between the two sections of the render cycle.
C8_Witness ==
  /\ loopPc = "give2" /\ sectionsTaken = 2
  /\ gauges.local_rpm \in RpmValues
  /\ gauges.local_engineLoad \in LoadValues
  /\ snap # SnapOf(committed)

\* The status sign drawn from an age of the data and a link state.
SignFor(age, link) ==
  IF age < StatusLiveMs THEN "o" ELSE IF link THEN "!" ELSE "x"

\* C9: the status sign of a frame of the efficiency screen is determined by
\* the data timestamp in the snapshot and the link state as it was when the
\* snapshot was taken.
C9_StatusFromSnapshot ==
  frame.mode = 1 => frame.status = SignFor(frame.age, frame.snapLink)

\* A frame of the efficiency screen drawn from a snapshot that was taken
\* 5 s or more after the last update obdTask published.
FiveSecondsOld ==
  frame.mode = 1 /\ frame.lastUpdate > 0 /\ frame.snapAge >= 5000

ProducerSectionPcs ==
  {"kph_vss", "kph_dist", "kph_timer", "kph_upd", "kph_mode", "kph_give",
   "maf_val", "maf_fuel", "maf_upd", "maf_mode", "maf_give",
   "rpm_val", "rpm_upd", "rpm_give", "load_val", "load_upd", "load_give",
   "fuel_val", "fuel_upd", "fuel_give", "down_vss", "down_give",
   "sim_vss", "sim_rpm", "sim_dist", "sim_fuel", "sim_timer", "sim_upd",
   "sim_give"}

LoopSectionPcs ==
  {"snap_kph", "snap_maf", "snap_dist", "snap_timer", "snap_fuel",
   "snap_upd", "set_mode", "give1", "snap_rpm", "snap_level", "snap_load",
   "give2"}

\* C5: a step of the producer task or of loop() that changes a global is
\* taken by the holder of dataMutex, and the two are never both between
\* xSemaphoreTake and xSemaphoreGive.
C5_AccessUnderMutex ==
  [][/\ (store' # store /\ obdPc' # obdPc) => mutexHolder = "obd"
     /\ (store' # store /\ loopPc' # loopPc) => mutexHolder = "loop"
     /\ ~(obdPc' \in ProducerSectionPcs /\ loopPc' \in LoopSectionPcs)]_vars

\* C7: a call of loop() that gives up on an xSemaphoreTake pushes no frame
\* and leaves the globals as they are.
C7_TimeoutSkipsCycle ==
  [][(loopPc \in {"take1", "take2"} /\ loopPc' = "start")
       => frame' = NoFrame /\ store' = store]_vars

\* The positions of obdTask at global_lastDataUpdate = ... in the five
\* ELM_SUCCESS branches.
TimestampPcs == {"kph_upd", "maf_upd", "rpm_upd", "load_upd", "fuel_upd"}

\* C11: global_lastDataUpdate is written in the critical section of every
\* successful poll of the five parameters (speed and MAF store the time of
\* the poll, rpm, engine load and fuel level the time of the write) and by
\* no other step: not by a failed or pending poll, not by the link-down
\* branch.
C11_TimestampOnSuccessOnly ==
  [][/\ (KphSucceeds \/ MafSucceeds) => now' = clock
     /\ (obdPc \in {"kph_upd", "maf_upd"} /\ obdPc' # obdPc)
          => mutexHolder = "obd" /\ store'.global_lastDataUpdate = now
     /\ (obdPc \in {"rpm_upd", "load_upd", "fuel_upd"} /\ obdPc' # obdPc)
          => mutexHolder = "obd" /\ store'.global_lastDataUpdate = clock
     /\ (obdPc \in {"kph_give", "maf_give"} /\ obdPc' = "top")
          => committed'.global_lastDataUpdate = now
     /\ obdPc \notin TimestampPcs
          => store'.global_lastDataUpdate = store.global_lastDataUpdate]_vars

\* The fuel-level poll has moved the timestamp past the one the engine-load
\* poll published, after the rpm poll published too.
C11_Witness ==
  /\ obdPc = "fuel_give"
  /\ store.global_rpm \in RpmValues
  /\ store.global_load \in LoadValues
  /\ store.global_lastDataUpdate = clock
  /\ committed.global_lastDataUpdate < clock
  /\ committed.global_lastDataUpdate > 0

\* obdTask has invalidated the speed in the link-down branch, or no speed
\* poll has succeeded since it did (or since startup).
SpeedInvalidated == obdPc \in {"down_give", "reconnect", "sleep"} \/ kphFresh

\* C12: when obdTask finds the link down it writes global_vss_kph = -1 while
\* it holds the mutex and has released it before it attempts to reconnect;
\* from then until the next successful speed poll every snapshot of loop()
\* copies an invalid speed, and the efficiency screen drawn from a snapshot
\* with an invalid speed shows "--".
C12_LinkDownInvalidatesSpeed ==
  [][/\ (obdPc = "down_vss" /\ obdPc' = "down_give")
          => mutexHolder = "obd" /\ store'.global_vss_kph = NoReading
     /\ (obdPc = "reconnect" /\ obdPc' # obdPc)
          => mutexHolder # "obd" /\ committed.global_vss_kph = NoReading
     /\ SpeedInvalidated => store.global_vss_kph = NoReading
     /\ (loopPc = "snap_kph" /\ loopPc' = "snap_maf" /\ SpeedInvalidated)
          => snap'.local_kph = NoReading
     /\ (loopPc = "give1" /\ loopPc' = "start" /\ local_mode = 1
           /\ snap.local_kph = NoReading)
          => frame'.inst.text = "--"]_vars

\* The efficiency screen shows "--" from a snapshot taken after the
\* link-down branch invalidated a speed that had been published, the MAF
\* value still being valid.
C12_Witness ==
  /\ frame.mode = 1 /\ frame.inst.text = "--"
  /\ ~frame.snapLink
  /\ prev_kph > 0 /\ committed.global_maf > 0
  /\ committed.global_vss_kph = NoReading
  /\ SpeedInvalidated

\* C13: the distance delta of a successful speed poll that has a previous
\* sample is (prev + curr) / 2 * (tCurr - tPrev) / 3600000 km when either
\* sample is above 0 and 0 otherwise; 80 km/h sampled at tick 0 and 100 km/h
\* sampled at tick 3600000 add 90 km (90 * 2 * 3600000 over the denominator
\* of the total).
C13_TrapezoidFromAnyTick ==
  [][(obdPc = "integrate_kph" /\ obdPc' = "integrate_maf")
       => /\ dist_delta' = IF temp_kph > 0 \/ prev_kph > 0
                             THEN (prev_kph + temp_kph) * (now - lastSpeedTime)
                             ELSE 0
          /\ (prev_kph = 80 /\ lastSpeedTime = 0 /\ temp_kph = 100
                /\ now = 3600000)
               => dist_delta' = 90 * 2 * 3600000]_vars

\* Hundred-millionths of a litre in a fuel delta of the integrator:
\* 0.33094 l/h per g/s, the delta being tenths of g/s times ms over 2.
LitresE8(delta) == (delta \div 72000) * 33094

\* C14: a MAF delta is (prev + curr) / 2 * 0.33094 * elapsed hours, of the
\* readings times the calibration multiplier; a raw MAF of 20 g/s at both
\* ends of exactly one hour adds 20 * 0.33094 = 6.6188 litres times 1.08.
C14_FuelDeltaOfAnHour ==
  [][(obdPc = "integrate_maf" /\ obdPc' = "integrated" /\ lastFuelTime > 0)
       => /\ fuel_delta' = IF temp_maf > 0 \/ prev_maf > 0
                             THEN (prev_maf + temp_maf) * (now - lastFuelTime)
                             ELSE 0
          /\ (prev_maf = CorrectedMaf(20) \div 10
                /\ temp_maf = CorrectedMaf(20) \div 10
                /\ now - lastFuelTime = 3600000)
               => LitresE8(fuel_delta') = 66188 * FUEL_CORRECTION_PCT * 100]_vars

\* Two corrected readings of 20 g/s an hour apart have been integrated.
C14_Witness ==
  /\ obdPc = "integrated"
  /\ prev_maf = 216 /\ temp_maf = 216
  /\ lastFuelTime = 3601000
  /\ LitresE8(fuel_delta) = 714830400

\* C15: global_totalDistanceTraveledTimer changes only in the critical
\* section of a successful speed poll, the one that adds the distance delta:
\* a speed above 0 adds the time elapsed since the previous speed sample
\* (nothing when lastSpeedTime says there is none), a speed of 0 adds
\* nothing; failed and pending polls, the other parameters and the link-down
\* branch leave it alone.
C15_MovingTimeOnMovingSamples ==
  [][/\ KphSucceeds
          => time_delta_ms' = IF lastSpeedTime > 0
                                THEN clock - lastSpeedTime ELSE 0
     /\ (obdPc = "kph_timer" /\ obdPc' # obdPc)
          => /\ mutexHolder = "obd"
             /\ store'.global_totalDistanceTraveledTimer
                  = store.global_totalDistanceTraveledTimer
                      + (IF temp_kph > 0 THEN time_delta_ms ELSE 0)
     /\ obdPc # "kph_timer"
          => store'.global_totalDistanceTraveledTimer
               = store.global_totalDistanceTraveledTimer
     /\ (obdPc = "kph_give" /\ obdPc' = "top")
          => /\ store.global_totalDistanceTraveledTimer
                  - committed.global_totalDistanceTraveledTimer
                  = IF temp_kph > 0 THEN time_delta_ms ELSE 0
             /\ store.global_totalDistanceTraveled
                  - committed.global_totalDistanceTraveled = dist_delta]_vars

\* A speed poll above 0 is about to publish its elapsed time together with
\* its distance delta, after an earlier poll at speed 0 left the moving time
\* at 0.
C15_Witness ==
  /\ obdPc = "kph_give"
  /\ temp_kph > 0 /\ time_delta_ms > 0 /\ dist_delta > 0
  /\ committed.global_totalDistanceTraveledTimer = 0
  /\ store.global_totalDistanceTraveledTimer = time_delta_ms
  /\ store.global_totalDistanceTraveled
       = committed.global_totalDistanceTraveled + dist_delta

\* The maximum of the sketch that drew the frame: the first version signs
\* its frames "*" or "?".
MaxOfFrame(f) == IF f.status \in {"*", "?"} THEN MaxInstMpgV1 ELSE MaxInstMpg

\* C16: an efficiency screen drawn from a speed above 0 and a MAF above 0
\* shows the instantaneous efficiency as a number that is the computed value
\* when that is at most the maximum of the sketch (99, or 90 in the first
\* version) and the maximum itself when it is above: never a larger number,
\* never "--".
C16_InstantClampedToMaximum ==
  (frame.mode = 1 /\ store.global_vss_kph > 0 /\ store.global_maf > 0)
    => /\ frame.inst.text = "num"
       /\ frame.inst.n <= MaxOfFrame(frame)
       /\ frame.inst.n
            = IF InstMpg(store.global_vss_kph, store.global_maf)
                   > MaxOfFrame(frame)
                THEN MaxOfFrame(frame)
                ELSE InstMpg(store.global_vss_kph, store.global_maf)

\* A computed efficiency of 118 (50 km/h at 3 g/s) is on the screen as 99.
C16_Witness ==
  /\ frame.mode = 1 /\ frame.status \in {"o", "!", "x"}
  /\ store.global_vss_kph = 50 /\ store.global_maf = 300
  /\ InstMpg(store.global_vss_kph, store.global_maf) = 118
  /\ frame.inst = [text |-> "num", n |-> MaxInstMpg]

\* C17: on the efficiency screen and on the totals screen of loop() the
\* average efficiency is computed and printed only from a snapshot with
\* more than 0.1 km and more than 0.001 l; otherwise "--" is printed, and
\* the quotient is never taken with a fuel total of 0.
C17_AverageNeedsDistanceAndFuel ==
  (frame.mode \in {1, 3} /\ frame.status \notin {"*", "?", "D"}
     /\ frame.avg # "--")
    => /\ store.global_totalDistanceTraveled > MinAvgDistance
       /\ store.global_totalFuelConsumed > MinAvgFuel
       /\ frame.avg # "inf"

\* The globals other than the selected mode.
TelemetryOf(st) == [st EXCEPT !.global_mode = 0]

\* C18: the readings, the totals, the moving time and the timestamp are
\* written by steps of obdTask only; a step of loop() changes at most
\* global_mode, which it sets to its local mode while it holds the mutex in
\* its first section; no step of obdTask changes global_mode.
C18_WritersOfTheStore ==
  [][/\ loopPc' # loopPc => TelemetryOf(store') = TelemetryOf(store)
     /\ (loopPc' # loopPc /\ store' # store)
          => /\ loopPc = "set_mode" /\ mutexHolder = "loop"
             /\ store'.global_mode = local_mode
     /\ obdPc' # obdPc => store'.global_mode = store.global_mode
     /\ TelemetryOf(store') # TelemetryOf(store)
          => obdPc' # obdPc /\ loopPc' = loopPc
     /\ store'.global_mode # store.global_mode
          => loopPc' # loopPc /\ obdPc' = obdPc]_vars

\* loop() has written mode 4 into the globals in its first section, with a
\* speed and a MAF value published by obdTask in them.
C18_Witness ==
  /\ loopPc = "give1" /\ sharedChanged
  /\ store.global_mode = 4 /\ committed.global_mode = 1
  /\ store.global_vss_kph \in KphValues
  /\ store.global_maf >= 0
  /\ TelemetryOf(store) = TelemetryOf(committed)

\* A query of obdTask resolves in this step: with ELM_SUCCESS (the task
\* enters the section of the parameter) or with an error that is recorded.
QueryResolves ==
  /\ obdPc = "top"
  /\ \/ obdPc' \notin {"top", "down_vss"}
     \/ kphPrev' # kphPrev
     \/ mafPrev' # mafPrev

\* C19: after a myELM327.begin() that failed on a reconnected transport,
\* obdTask treats the link as still down: no parameter query is issued, and
\* so none resolves, until a later begin() has succeeded.
C19_FailedBeginStaysDown == [][~elmReady => ~QueryResolves]_vars

\* The step that tries ELM_PORT.connect(address).
ReconnectAttempt == obdPc = "reconnect" /\ obdPc' = "sleep"

\* The transport has accepted the connection and the delay of the
\* link-down branch can still run out.
ReconnectAccepted ==
  /\ obdPc = "sleep" /\ connected
  /\ (clock >= obdWake \/ ticksUsed < MaxTicks)

\* C20: with the link down obdTask resolves no query; an attempt to
\* reconnect that fails leaves the task in its loop with its state and the
\* totals as they were; an attempt that follows another one on a link that
\* stayed down comes at least ReconnectDelayMs later; and once the
\* transport has accepted the connection the task gets back to the head of
\* its loop with the link up, unless the link is lost again first.
C20_ReconnectLoop ==
  /\ [][/\ (~connected \/ obdPc \in DownPcs) => ~QueryResolves
        /\ (ReconnectAttempt /\ ~connected')
             => /\ store' = store
                /\ currentState' = currentState
                /\ <<prev_kph, prev_maf, lastSpeedTime, lastFuelTime>>'
                     = <<prev_kph, prev_maf, lastSpeedTime, lastFuelTime>>
                /\ obdWake' = clock + ReconnectDelayMs
        /\ (ReconnectAttempt /\ reconnectAt > 0)
             => clock - reconnectAt >= ReconnectDelayMs]_vars
  /\ [](ReconnectAccepted => <>((obdPc = "top" /\ connected) \/ ~connected))
  /\ [](obdPc = "sleep" /\ ticksUsed < MaxTicks => <>(obdPc = "top"))

\* The link is still down after an attempt that failed, the delay has run
\* out and obdTask is about to try ELM_PORT.connect(address) again.
C20_Witness ==
  /\ obdPc = "reconnect" /\ ~connected
  /\ reconnectAt > 0
  /\ clock >= reconnectAt + ReconnectDelayMs
  /\ store.global_vss_kph = NoReading

\* C21: with the link up and every query resolving in the end, obdTask
\* comes back to the speed state again and again, whatever mode is
\* selected, mode 6 included.
C21_SpeedPolledForEver == []<>(currentState = "KPH" /\ obdPc = "top")

\* C24: from the diagnostics state obdTask goes on to the speed state.
C24_DiagnosticsReturnsToSpeed ==
  [](currentState = "DTC" => <>(currentState = "KPH"))

\* loop() draws the drag screen in this step.
DragDrawn == loopPc = "give1" /\ loopPc' = "start" /\ local_mode = 5

\* The drag timer at rest: no run, nothing latched.
DragStopped(d) ==
  ~d.isRunning /\ d.timer_30 = 0 /\ d.timer_60 = 0 /\ d.timer_80 = 0

\* C23: every render of the drag screen from a snapshot speed of 0 stops
\* the run and clears the three latched times; the timer then stays at rest
\* until the first render from a speed above 0.5 mph, which starts a new
\* run at that render's millis().
C23_DragResetsOnStop ==
  [][DragDrawn =>
       /\ snap.local_kph = 0 => DragStopped(drag')
       /\ (DragStopped(drag) /\ MicroMph(snap.local_kph) > 500000)
            => drag'.isRunning /\ drag'.startTime = clock
       /\ (DragStopped(drag) /\ ~(MicroMph(snap.local_kph) > 500000))
            => DragStopped(drag')]_vars

\* A run had been started and the car has stopped since: the drag screen
\* was drawn from a snapshot speed of 0, it shows READY! and no latched
\* time, and the timer is at rest.
C23_Witness ==
  /\ local_mode = 5 /\ loopPc = "start"
  /\ frame.mode = 5 /\ frame.status = "READY!"
  /\ frame.values = <<0, 0, 0>>
  /\ drag.startTime > 0 /\ DragStopped(drag)
  /\ clock - drag.startTime >= 5000
  /\ store.global_totalDistanceTraveled > 0

\* C25: when the delay of the link-down branch ends with the link up again,
\* obdTask is in the speed state, whatever state it was in when the link
\* was lost.
C25_ReconnectResumesAtSpeed ==
  [][(obdPc = "sleep" /\ obdPc' = "top" /\ connected)
       => currentState' = "KPH"]_vars

\* C22: when the switch has been tapped X times, 1 <= X <= 6, and left
\* alone for more than one second, the next call of loop() selects mode X;
\* the mode is published as global_mode in the first section that loop()
\* takes; and while taps are pending loop() takes no section.
C22_TapsThenOneSecond ==
  /\ []((loopPc = "start" /\ tapCounter \in TapCounts
         /\ clock - lastTapTime > 1000)
          => TapExpired(tapCounter, clock, lastTapTime))
  /\ [][/\ (tapCounter \in TapCounts /\ tapCounter' = 0)
             => local_mode' = tapCounter
        /\ (loopPc = "set_mode" /\ loopPc' = "give1")
             => store'.global_mode = local_mode /\ mutexHolder = "loop"
        /\ tapCounter' > 0
             => /\ loopPc' = "start" /\ snap' = snap
                /\ store'.global_mode = store.global_mode]_vars

\* obdTask releases the mutex at the end of the section of a successful
\* speed (MAF) poll and chooses its next state.
KphSectionEnds == obdPc = "kph_give" /\ obdPc' = "top"
MafSectionEnds == obdPc = "maf_give" /\ obdPc' = "top"

C27_FailedSpeedPollRetries ==
  [][(obdPc = "top" /\ currentState = "KPH" /\ obdPc' = "top")
       => /\ currentState' = "KPH"
          /\ TelemetryOf(store') = TelemetryOf(store)
          /\ TelemetryOf(committed') = TelemetryOf(committed)
          /\ prev_kph' = prev_kph]_vars

\* A speed of 50 km/h was published, a later speed query failed, and
\* obdTask is about to issue the speed query again with the published
\* values in place.
C27_Witness ==
  /\ obdPc = "top" /\ currentState = "KPH" /\ connected
  /\ kphPrev = "fail" /\ ~kphFresh
  /\ committed.global_vss_kph = 50
  /\ committed.global_lastDataUpdate = clock

\* C28: the section of a successful MAF poll publishes the MAF value, reads
\* the selected mode while obdTask still holds the mutex, and ends with the
\* next state chosen from that mode: rpm for mode 4, diagnostics for mode
\* 6, speed for every other mode.
C28_ModeChoosesStateAfterMaf ==
  [][/\ (obdPc = "maf_mode" /\ obdPc' = "maf_give")
          => /\ mutexHolder = "obd" /\ mutexHolder' = "obd"
             /\ obd_local_mode' = store.global_mode
             /\ store.global_maf = temp_maf
     /\ MafSectionEnds
          => /\ obd_local_mode = store.global_mode
             /\ committed'.global_maf = temp_maf
             /\ currentState' = IF store.global_mode = 4 THEN "RPM"
                                ELSE IF store.global_mode = 6 THEN "DTC"
                                ELSE "KPH"]_vars

\* The diagnostics screen was selected and a MAF value published: obdTask
\* is in the diagnostics state.
C28_Witness ==
  /\ obdPc = "top" /\ currentState = "DTC"
  /\ mafPrev = "success"
  /\ committed.global_mode = 6
  /\ committed.global_maf # NoReading

\* C29: a pass of obdTask in the MAF state that takes no section either
\* records a failed query and moves to the speed state, in every mode, or
\* leaves the state and the record alone (the query is pending); neither
\* changes the MAF reading or the fuel total.
C29_FailedMafPollGoesToSpeed ==
  [][(obdPc = "top" /\ currentState = "MAF" /\ obdPc' = "top")
       => /\ currentState' \in {"MAF", "KPH"}
          /\ mafPrev' # mafPrev
               => mafPrev' = "fail" /\ currentState' = "KPH"
          /\ currentState' = "MAF" => mafPrev' = mafPrev
          /\ store'.global_maf = store.global_maf
          /\ store'.global_totalFuelConsumed = store.global_totalFuelConsumed
          /\ committed'.global_maf = committed.global_maf
          /\ committed'.global_totalFuelConsumed
               = committed.global_totalFuelConsumed
          /\ prev_maf' = prev_maf]_vars

\* The diagnostics screen is selected, the speed was published, the MAF
\* query failed: obdTask is in the speed state, no MAF reading and no fuel
\* published.
C29_Witness ==
  /\ obdPc = "top" /\ currentState = "KPH"
  /\ kphPrev = "success" /\ mafPrev = "fail" /\ mafFresh
  /\ committed.global_mode = 6
  /\ committed.global_maf = NoReading
  /\ committed.global_totalFuelConsumed = 0

\* C30: in the rpm, engine-load and fuel-level states a query that
\* resolves, with a value or with a failure, moves obdTask to the next
\* state of rpm -> load -> fuel level -> speed; a pass that keeps the state
\* has resolved nothing; a failure changes no global.
C30_ResolvedQueryAdvances ==
  [][/\ (/\ obdPc = "top" /\ obdPc' = "top" /\ connected
         /\ currentState \in {"RPM", "LOAD", "FUEL"}
         /\ secPrev' = "fail"
         /\ secPrev' # secPrev \/ currentState' # currentState)
          => /\ currentState' = CASE currentState = "RPM" -> "LOAD"
                                  [] currentState = "LOAD" -> "FUEL"
                                  [] currentState = "FUEL" -> "KPH"
             /\ store' = store /\ committed' = committed
     /\ (obdPc = "top" /\ obdPc' = "top"
         /\ currentState \in {"RPM", "LOAD", "FUEL"}
         /\ currentState' = currentState)
          => secPrev' = secPrev
     /\ (obdPc = "rpm_give" /\ obdPc' = "top")
          => currentState' = "LOAD" /\ committed'.global_rpm = value
     /\ (obdPc = "load_give" /\ obdPc' = "top")
          => currentState' = "FUEL" /\ committed'.global_load = value
     /\ (obdPc = "fuel_give" /\ obdPc' = "top")
          => currentState' = "KPH" /\ committed'.global_fuel = value]_vars

\* The hours, minutes and seconds of a duration, printed as timerTransform
\* prints its fields.
TrueTimer(ms) ==
  LET hours == ms \div 3600000
  IN  (IF hours >= 1 THEN TwoDigits(hours) \o <<":">> ELSE <<>>)
        \o TwoDigits((ms \div 60000) % 60) \o <<":">>
        \o TwoDigits((ms \div 1000) % 60)

\* C31: the two timers of the trip screen show the true hours, minutes and
\* seconds of millis() and of the moving time, the hours only from one hour
\* on.
C31_TimerShowsTrueTime ==
  frame.mode = 2
    => frame.timers
         = <<TrueTimer(clock),
             TrueTimer(committed.global_totalDistanceTraveledTimer)>>

\* The positions of obdTask outside its sections: the query at the top of
\* a pass, the waits on xSemaphoreTake, the reconnection and the delay.
ObdOutsidePcs ==
  {"top", "kph_take", "maf_take", "rpm_take", "load_take", "fuel_take",
   "reconnect", "sleep"}

\* C32: obdTask does not hold dataMutex where it queries, waits for the
\* mutex, reconnects or sleeps; loop() holds it only inside its own
\* sections; and whenever obdTask holds it, it gives it back.
C32_MutexHeldInShortSections ==
  /\ [](obdPc \in ObdOutsidePcs => mutexHolder # "obd")
  /\ [](mutexHolder = "loop" => loopPc \in LoopSectionPcs)
  /\ (mutexHolder = "obd") ~> (mutexHolder # "obd")

\* The link is down and obdTask sleeps after a reconnection attempt while
\* loop() is inside its first section.
C32_Witness ==
  /\ obdPc = "sleep" /\ ~connected
  /\ mutexHolder = "loop" /\ loopPc = "snap_kph"
  /\ store.global_vss_kph = NoReading /\ kphPrev = "success"

\* C33: on the drag screen the latched times are in order: a latched 30 mph
\* time is not above a latched 60 mph time, nor either of them above a
\* latched 80 mph time.
C33_LatchedTimesOrdered ==
  /\ (drag.timer_30 # 0 /\ drag.timer_60 # 0)
       => drag.timer_30 <= drag.timer_60
  /\ (drag.timer_60 # 0 /\ drag.timer_80 # 0)
       => drag.timer_60 <= drag.timer_80
  /\ (drag.timer_30 # 0 /\ drag.timer_80 # 0)
       => drag.timer_30 <= drag.timer_80

\* C34: a render of the drag screen whose snapshot speed is not 0 leaves
\* every latched (non-zero) time as it is, and a render latches a time
\* only if the timer was running when the render began.
C34_LatchedTimesKept ==
  [][DragDrawn =>
       /\ \A t \in {"timer_30", "timer_60", "timer_80"} :
            /\ (drag[t] # 0 /\ snap.local_kph # 0) => drag'[t] = drag[t]
            /\ (drag'[t] # drag[t] /\ drag'[t] # 0) => drag.isRunning
       /\ snap.local_kph = 0 => DragStopped(drag')]_vars

\* A run in which 30 mph was latched 20 s after the start and, 100 s later
\* and still running below 60 mph, the latched time is still on the screen.
C34_Witness ==
  /\ local_mode = 5 /\ loopPc = "start" /\ frame.mode = 5
  /\ drag.isRunning
  /\ drag.timer_30 = 20000 /\ drag.timer_60 = 0
  /\ clock - drag.startTime = 120000
  /\ frame.values = <<20000, 0, 0>>

\* obdTask enters the rpm state in this step.
EntersRpm == currentState # "RPM" /\ currentState' = "RPM"

\* A step that changes a gauge reading, or in which an rpm, engine-load or
\* fuel-level query resolves.
SecondaryActs ==
  \/ store'.global_rpm # store.global_rpm
  \/ store'.global_load # store.global_load
  \/ store'.global_fuel # store.global_fuel
  \/ secPrev' # secPrev
  \/ obdPc = "top" /\ obdPc' \in {"rpm_take", "load_take", "fuel_take"}

\* C35 as stated: obdTask enters the rpm state only at the end of the
\* section of a successful MAF poll that read mode 4, and while the
\* selected mode is not 4 no rpm, engine-load or fuel-level query resolves
\* and none of the three readings changes.
C35_SecondaryOnlyWhileGauges ==
  [][/\ EntersRpm => MafSectionEnds /\ store.global_mode = 4
     /\ store.global_mode # 4 => ~SecondaryActs]_vars

\* C35: obdTask enters the rpm state only at the end of the section of a
\* successful MAF poll that read mode 4, the engine-load state only from
\* the rpm state and the fuel-level state only from the engine-load state;
\* a query of the three resolves, and a reading of the three changes, only
\* in these states, so with obdTask in the speed or MAF state nothing of
\* the three is queried or changed until such a MAF poll.
C35_SecondaryOnlyAfterMaf ==
  [][/\ EntersRpm => MafSectionEnds /\ store.global_mode = 4
     /\ (currentState # "LOAD" /\ currentState' = "LOAD")
          => currentState = "RPM"
     /\ (currentState # "FUEL" /\ currentState' = "FUEL")
          => currentState = "LOAD"
     /\ SecondaryActs => currentState \in {"RPM", "LOAD", "FUEL"}]_vars

\* The gauges screen was left for the efficiency screen after obdTask had
\* entered the rpm state: the engine load is published with mode 1
\* selected.
C35_Witness ==
  /\ committed.global_mode = 1
  /\ committed.global_load \in LoadValues
  /\ obdPc = "top" /\ currentState = "FUEL" /\ secPrev = "success"

\* C36: the selected mode in the globals and the local mode of loop() are
\* always one of the six modes, whatever was tapped and wherever obdTask
\* is.
C36_ModeInRange ==
  /\ store.global_mode \in 1 .. 6
  /\ committed.global_mode \in 1 .. 6
  /\ local_mode \in 1 .. 6

\* Seven taps on the gauges screen have selected mode 1, loop() has
\* published it and obdTask has read it in a speed section.
C36_Witness ==
  /\ local_mode = 1 /\ tapCounter = 0
  /\ committed.global_mode = 1
  /\ obdPc = "kph_give" /\ obd_local_mode = 1

\* C37: with an earlier successful sample of the channel, whatever tick it
\* was stamped with, the time obdTask puts into the moving time, the
\* distance delta and the fuel delta is the number of milliseconds since
\* that sample, also when millis() has wrapped in between.
C37_ElapsedAcrossTickWrap ==
  [][/\ (obdPc = "wrap_kph" /\ obdPc' = "wrap_maf" /\ ~kphFresh)
          => \A gap \in WrapGaps :
               now = Add32(lastSpeedTime, gap)
                 => /\ time_delta_ms' = gap
                    /\ dist_delta' = (temp_kph + prev_kph) * Val32(gap)
     /\ (obdPc = "wrap_maf" /\ obdPc' = "wrapped" /\ ~mafFresh)
          => \A gap \in WrapGaps :
               now = Add32(lastFuelTime, gap)
                 => fuel_delta' = (temp_maf + prev_maf) * Val32(gap)]_vars

====
